---- MODULE Spec2Model ----
(***************************************************************************)
(* Vouch-network collusion scoring (analysis/src): the graph model built   *)
(* from vouch records, the ring and cluster detectors, the burst, stake    *)
(* and reciprocity detectors and the composite scorer.                     *)
(*                                                                         *)
(* Numbers.  Python floats are modelled as exact rationals <<num, den>>    *)
(* (den > 0); scores are in points, stakes in ETH, time in whole days.     *)
(* A timestamp is [t |-> day, tz |-> aware?]; NoTs stands for None.        *)
(***************************************************************************)
EXTENDS Integers, Sequences, FiniteSets, TLC

VARIABLES
    pc,         \* position of the program
    vouches,    \* the vouch records read so far (the list given to the analysis)
    G,          \* the nx.DiGraph
    rings,      \* precomputed_rings: [given, rings] (given = FALSE for None)
    parts,      \* the communities a find_communities call returned to its caller
    clusters,   \* precomputed_clusters: [given, data], data: profile -> <<insularity, size>>
    users,      \* the user objects the upstream API embeds in records, per profile
    weights,    \* the weights argument (w)
    profile,    \* the loop position in G.nodes(), or the profile_id argument of a call
    results,    \* the list of result entries
    out,        \* the value returned by the function under call
    calls       \* how often each whole-graph computation / detector has run

vars == <<pc, vouches, G, rings, parts, clusters, users, weights, profile, results, out, calls>>

-----------------------------------------------------------------------------
(* Bounds of the model *)

MaxNode == 3
MaxVouches == 3

NodeIds == 1..MaxNode

-----------------------------------------------------------------------------
(* Rationals *)

RECURSIVE GCD(_, _)
GCD(a, b) == IF b = 0 THEN a ELSE GCD(b, a % b)

Abs(x) == IF x < 0 THEN -x ELSE x

Norm(r) ==
    LET g == GCD(Abs(r[1]), r[2])
    IN  IF g = 0 THEN r ELSE <<r[1] \div g, r[2] \div g>>

Rat(n) == <<n, 1>>
RAdd(a, b) == IF a[2] = b[2] THEN <<a[1] + b[1], a[2]>>
              ELSE Norm(<<a[1] * b[2] + b[1] * a[2], a[2] * b[2]>>)
RMul(a, b) == Norm(<<a[1] * b[1], a[2] * b[2]>>)
RLt(a, b) == a[1] * b[2] < b[1] * a[2]
RLe(a, b) == a[1] * b[2] <= b[1] * a[2]
REq(a, b) == a[1] * b[2] = b[1] * a[2]
RMin(a, b) == IF RLe(a, b) THEN a ELSE b

-----------------------------------------------------------------------------
(* Sequences *)

Last(s) == s[Len(s)]
Range(s) == {s[i] : i \in 1..Len(s)}
InSeq(x, s) == \E i \in 1..Len(s) : s[i] = x

\* sorted(items, key, reverse=True) / list.sort(key, reverse=True): Python's
\* sort is stable, and reverse=True keeps the original order of equal keys.
\* keys[i] is the (integer) key of items[i].
SortedReverse(items, keys) ==
    LET n == Len(items)
        Before(j, i) == keys[j] > keys[i] \/ (keys[j] = keys[i] /\ j < i)
        pos(i) == 1 + Cardinality({j \in 1..n : Before(j, i)})
    IN  [k \in 1..n |-> items[CHOOSE i \in 1..n : pos(i) = k]]

-----------------------------------------------------------------------------
(* graph.py *)

WEI_PER_ETH == 1000   \* 10**18, in model wei of 10**15 wei each

NoTs == [t |-> -1, tz |-> FALSE]
Stamp(d, z) == [t |-> d, tz |-> z]
HasTs(ts) == ts.t >= 0

NoUser == "<absent>"
NoWeight == <<0, 0>>

OFFICIAL_ACCOUNTS ==
    {"ethosnetwork", "etaborase", "base", "coinbase", "optimism", "arbitrum",
     "jessepollak", "megaeth", "megaethlabs", "vitalikbuterin", "caborase"}

\* str.lower() on the usernames of the model
Lower(s) ==
    CASE s = "Base" -> "base"
      [] s = "COINBASE" -> "coinbase"
      [] s = "Optimism" -> "optimism"
      [] OTHER -> s

wei_to_eth(wei) == <<wei, WEI_PER_ETH>>

\* nx.DiGraph() for profile ids drawn from ids
EmptyGraphOn(ids) ==
    [nodes |-> <<>>,
     succ  |-> [n \in ids |-> <<>>],
     edge  |-> <<>>,
     user  |-> [n \in ids |-> NoUser]]

EmptyGraph == EmptyGraphOn(NodeIds)

Nodes(g) == Range(g.nodes)
Edges(g) == DOMAIN g.edge
has_edge(g, u, v) == <<u, v>> \in DOMAIN g.edge
successors(g, n) == g.succ[n]
predecessors(g, n) == {u \in Nodes(g) : has_edge(g, u, n)}
in_degree(g, n) == Cardinality(predecessors(g, n))
out_degree(g, n) == Len(g.succ[n])
weight_of(g, u, v) ==
    IF g.edge[<<u, v>>].weight = NoWeight THEN Rat(0) ELSE g.edge[<<u, v>>].weight

\* G.add_edge(u, v, **attrs) on a graph that has no such edge
add_edge(g, u, v, attrs) ==
    LET n1 == IF InSeq(u, g.nodes) THEN g.nodes ELSE Append(g.nodes, u)
        n2 == IF InSeq(v, n1) THEN n1 ELSE Append(n1, v)
    IN  [g EXCEPT !.nodes = n2,
                  !.succ[u] = Append(@, v),
                  !.edge = [p \in DOMAIN g.edge \cup {<<u, v>>} |->
                               IF p = <<u, v>> THEN attrs ELSE g.edge[p]]]

\* G.add_node(n)
add_node(g, n) == IF InSeq(n, g.nodes) THEN g ELSE [g EXCEPT !.nodes = Append(@, n)]

\* G.add_edge / G.add_edges_from for a list of edges, attrs[i] the attributes
\* of edges[i] (an edge named again keeps its place and takes the new attributes)
RECURSIVE add_edges_from(_, _, _)
add_edges_from(g, edges, attrs) ==
    IF edges = <<>> THEN g
    ELSE LET e == Head(edges)
         IN  add_edges_from(IF has_edge(g, e[1], e[2])
                            THEN [g EXCEPT !.edge[e] = Head(attrs)]
                            ELSE add_edge(g, e[1], e[2], Head(attrs)),
                            Tail(edges), Tail(attrs))

\* Raw timestamp values of a record: kind "none" (absent / None), "num"
\* (epoch number, in days), "iso" (ISO-8601 without offset), "isoZ"
\* (ISO-8601 with Z or an offset), "bad" (a string that does not parse).
RawNone == [kind |-> "none", val |-> 0]
Truthy(raw) == raw.kind # "none" /\ ~(raw.kind = "num" /\ raw.val = 0)

\* lines 40-54: the timestamp of a record, None when it cannot be resolved
ExtractTimestamp(v) ==
    LET vouched_at == IF Truthy(v.vouchedAt) THEN v.vouchedAt ELSE v.vouched
    IN  IF ~Truthy(vouched_at) THEN NoTs
        ELSE CASE vouched_at.kind = "num" -> IF vouched_at.val > 0
                                              THEN Stamp(vouched_at.val, FALSE)
                                              ELSE NoTs
               [] vouched_at.kind = "iso" -> Stamp(vouched_at.val, FALSE)
               [] vouched_at.kind = "isoZ" -> Stamp(vouched_at.val, TRUE)
               [] OTHER -> NoTs

\* datetime < datetime raises TypeError between a naive and an aware value
Comparable(a, b) == a.tz = b.tz

\* UpsertEdge with `weight = balance` for `weight += balance` on an existing edge
UpsertEdge_Overwrite(g, v) ==
    LET a == v.authorProfileId
        s == v.subjectProfileId
        balance == wei_to_eth(v.balance)
        timestamp == ExtractTimestamp(v)
    IN  IF has_edge(g, a, s)
        THEN LET e == g.edge[<<a, s>>]
                 e1 == [e EXCEPT !.weight = balance, !.count = @ + 1]
             IN  IF HasTs(timestamp) /\ HasTs(e.timestamp) /\ ~Comparable(timestamp, e.timestamp)
                 THEN [ok |-> FALSE, g |-> [g EXCEPT !.edge[<<a, s>>] = e1]]
                 ELSE IF HasTs(timestamp) /\ (~HasTs(e.timestamp) \/ timestamp.t < e.timestamp.t)
                      THEN [ok |-> TRUE,
                            g |-> [g EXCEPT !.edge[<<a, s>>] = [e1 EXCEPT !.timestamp = timestamp]]]
                      ELSE [ok |-> TRUE, g |-> [g EXCEPT !.edge[<<a, s>>] = e1]]
        ELSE [ok |-> TRUE,
              g |-> add_edge(g, a, s,
                             [weight |-> balance, count |-> 1, timestamp |-> timestamp])]

\* lines 56-72: add the edge or update the existing one
\* (the result is [ok |-> FALSE] when the comparison of line 61 raises)
UpsertEdge(g, v) ==
    LET a == v.authorProfileId
        s == v.subjectProfileId
        balance == wei_to_eth(v.balance)
        timestamp == ExtractTimestamp(v)
    IN  IF has_edge(g, a, s)
        THEN LET e == g.edge[<<a, s>>]
                 e1 == [e EXCEPT !.weight = RAdd(@, balance), !.count = @ + 1]
             IN  IF HasTs(timestamp) /\ HasTs(e.timestamp) /\ ~Comparable(timestamp, e.timestamp)
                 THEN [ok |-> FALSE, g |-> [g EXCEPT !.edge[<<a, s>>] = e1]]
                 ELSE IF HasTs(timestamp) /\ (~HasTs(e.timestamp) \/ timestamp.t < e.timestamp.t)
                      THEN [ok |-> TRUE,
                            g |-> [g EXCEPT !.edge[<<a, s>>] = [e1 EXCEPT !.timestamp = timestamp]]]
                      ELSE [ok |-> TRUE, g |-> [g EXCEPT !.edge[<<a, s>>] = e1]]
        ELSE [ok |-> TRUE,
              g |-> add_edge(g, a, s,
                             [weight |-> balance, count |-> 1, timestamp |-> timestamp])]

\* lines 74-83: node attributes, first write wins
SetUser(g, n, user) ==
    IF user # NoUser /\ g.user[n] = NoUser THEN [g EXCEPT !.user[n] = user] ELSE g

\* one iteration of the loop of build_vouch_graph
BuildStep(g, v) ==
    LET r == UpsertEdge(g, v)
    IN  IF ~r.ok THEN r
        ELSE [ok |-> TRUE,
              g |-> SetUser(SetUser(r.g, v.authorProfileId, v.authorUser),
                            v.subjectProfileId, v.subjectUser)]

\* is_official_account comparing the username as written, without .lower()
is_official_account_CaseSensitive(g, node) ==
    LET username == IF g.user[node] = NoUser THEN "" ELSE g.user[node]
    IN  IF username # "" THEN username \in OFFICIAL_ACCOUNTS ELSE FALSE

\* lines 88-93
is_official_account(g, node) ==
    LET username == IF g.user[node] = NoUser THEN "" ELSE g.user[node]
    IN  IF username # "" THEN Lower(username) \in OFFICIAL_ACCOUNTS ELSE FALSE

-----------------------------------------------------------------------------
(* detectors/rings.py *)

\* ExpandNode without the `next_node not in visited` test of line 32
RECURSIVE ExpandNode_NoVisited(_, _, _, _, _, _)
ExpandNode_NoVisited(g, start_node, max_length, path, todo, st) ==
    IF todo = <<>> THEN st
    ELSE LET next_node == Head(todo)
             st1 == IF next_node = start_node /\ Len(path) >= 3
                    THEN [st EXCEPT !.rings = Append(@, path)]
                    ELSE IF Len(path) < max_length
                         THEN [st EXCEPT !.visited = @ \cup {next_node},
                                         !.queue = Append(@, Append(path, next_node))]
                         ELSE st
         IN  ExpandNode_NoVisited(g, start_node, max_length, path, Tail(todo), st1)

\* lines 29-35: the loop over the successors of `current`
RECURSIVE ExpandNode(_, _, _, _, _, _)
ExpandNode(g, start_node, max_length, path, todo, st) ==
    IF todo = <<>> THEN st
    ELSE LET next_node == Head(todo)
             st1 == IF next_node = start_node /\ Len(path) >= 3
                    THEN [st EXCEPT !.rings = Append(@, path)]
                    ELSE IF next_node \notin st.visited /\ Len(path) < max_length
                         THEN [st EXCEPT !.visited = @ \cup {next_node},
                                         !.queue = Append(@, Append(path, next_node))]
                         ELSE st
         IN  ExpandNode(g, start_node, max_length, path, Tail(todo), st1)

\* lines 23-35: the while loop; st = [queue, visited, rings]
RECURSIVE BfsLoop(_, _, _, _)
BfsLoop(g, start_node, max_length, st) ==
    IF st.queue = <<>> THEN st.rings
    ELSE LET path == Head(st.queue)
             current == Last(path)
             st0 == [st EXCEPT !.queue = Tail(@)]
         IN  IF Len(path) > max_length
             THEN BfsLoop(g, start_node, max_length, st0)
             ELSE BfsLoop(g, start_node, max_length,
                          ExpandNode(g, start_node, max_length, path,
                                     successors(g, current), st0))

\* lines 18-21: one search per successor of start_node
RECURSIVE NeighborLoop(_, _, _, _, _)
NeighborLoop(g, start_node, max_length, todo, acc) ==
    IF todo = <<>> THEN acc
    ELSE LET neighbor == Head(todo)
         IN  NeighborLoop(g, start_node, max_length, Tail(todo),
                 BfsLoop(g, start_node, max_length,
                         [queue |-> <<<<start_node, neighbor>>>>,
                          visited |-> {start_node, neighbor},
                          rings |-> acc]))

find_rings_around_node(g, start_node, max_length) ==
    NeighborLoop(g, start_node, max_length, successors(g, start_node), <<>>)

\* AddRings without the `ring_key not in seen` test: every rotation of a
\* ring is kept
RECURSIVE AddRings_NoDedup(_, _, _)
AddRings_NoDedup(node_rings, max_rings, st) ==
    IF node_rings = <<>> THEN st
    ELSE LET ring == Head(node_rings)
             st1 == [rings |-> Append(st.rings, ring),
                     seen |-> st.seen \cup {Range(ring)}]
         IN  IF Len(st1.rings) >= max_rings THEN st1
             ELSE AddRings_NoDedup(Tail(node_rings), max_rings, st1)

\* AddRings where a ring whose node set was seen replaces the ring kept for
\* that node set: the last discovery is kept, not the first
RECURSIVE AddRings_KeepLast(_, _, _)
AddRings_KeepLast(node_rings, max_rings, st) ==
    IF node_rings = <<>> THEN st
    ELSE LET ring == Head(node_rings)
             ring_key == Range(ring)
         IN  IF ring_key \notin st.seen
             THEN LET st1 == [rings |-> Append(st.rings, ring),
                              seen |-> st.seen \cup {ring_key}]
                  IN  IF Len(st1.rings) >= max_rings THEN st1
                      ELSE AddRings_KeepLast(Tail(node_rings), max_rings, st1)
             ELSE AddRings_KeepLast(Tail(node_rings), max_rings,
                      [st EXCEPT !.rings = [i \in DOMAIN @ |->
                                              IF Range(@[i]) = ring_key THEN ring ELSE @[i]]])

\* lines 77-84: the rings of one origin, deduplicated by frozenset
RECURSIVE AddRings(_, _, _)
AddRings(node_rings, max_rings, st) ==
    IF node_rings = <<>> THEN st
    ELSE LET ring == Head(node_rings)
             ring_key == Range(ring)
         IN  IF ring_key \notin st.seen
             THEN LET st1 == [rings |-> Append(st.rings, ring),
                              seen |-> st.seen \cup {ring_key}]
                  IN  IF Len(st1.rings) >= max_rings THEN st1
                      ELSE AddRings(Tail(node_rings), max_rings, st1)
             ELSE AddRings(Tail(node_rings), max_rings, st)

nodes_by_degree(g) ==
    SortedReverse(g.nodes, [i \in 1..Len(g.nodes) |->
                               in_degree(g, g.nodes[i]) + out_degree(g, g.nodes[i])])

\* OriginLoop without the two tests of lines 69-73 before an origin's search
RECURSIVE OriginLoop_Unchecked(_, _, _, _, _, _)
OriginLoop_Unchecked(g, max_length, max_rings, budget, todo, st) ==
    IF todo = <<>> THEN st.rings
    ELSE OriginLoop_Unchecked(g, max_length, max_rings, budget, Tail(todo),
                    AddRings(find_rings_around_node(g, Head(todo), max_length),
                             max_rings, st))

\* lines 67-86: the loop over the origins.  budget is the number of origins
\* whose search starts before the wall clock passes timeout_sec.
RECURSIVE OriginLoop(_, _, _, _, _, _)
OriginLoop(g, max_length, max_rings, budget, todo, st) ==
    IF todo = <<>> \/ budget = 0 \/ Len(st.rings) >= max_rings THEN st.rings
    ELSE OriginLoop(g, max_length, max_rings, budget - 1, Tail(todo),
                    AddRings(find_rings_around_node(g, Head(todo), max_length),
                             max_rings, st))

find_rings(g, max_length, max_rings, budget) ==
    OriginLoop(g, max_length, max_rings, budget, nodes_by_degree(g),
               [rings |-> <<>>, seen |-> {}])

\* lines 89-94 (find_rings with its default max_rings and timeout)
DEFAULT_MAX_RINGS == 10000

get_rings_for_profile(g, profile_id, max_length, budget) ==
    SelectSeq(find_rings(g, max_length, DEFAULT_MAX_RINGS, budget),
              LAMBDA ring : InSeq(profile_id, ring))

\* the edges (u, v) a ring names: ring[i] -> ring[(i + 1) % len(ring)]
RingPair(ring, i) == <<ring[i], ring[(i % Len(ring)) + 1]>>

\* lines 97-105
RECURSIVE StakeLoop(_, _, _, _)
StakeLoop(g, ring, i, total_stake) ==
    IF i > Len(ring) THEN total_stake
    ELSE LET p == RingPair(ring, i)
         IN  StakeLoop(g, ring, i + 1,
                       IF has_edge(g, p[1], p[2])
                       THEN RAdd(total_stake, weight_of(g, p[1], p[2]))
                       ELSE total_stake)

get_ring_stake(g, ring) == StakeLoop(g, ring, 1, Rat(0))

\* lines 110-117: the timestamps of the ring's edges, None left out
RingTimestamps(g, ring) ==
    LET idx == {i \in 1..Len(ring) :
                   /\ has_edge(g, RingPair(ring, i)[1], RingPair(ring, i)[2])
                   /\ HasTs(g.edge[RingPair(ring, i)].timestamp)}
    IN  [i \in idx |-> g.edge[RingPair(ring, i)].timestamp]

\* lines 108-122: [ok, none, days]; ok = FALSE when max()/min() raise TypeError
\* on timestamps that mix naive and aware values
get_ring_time_span(g, ring) ==
    LET ts == RingTimestamps(g, ring)
        days == {ts[i].t : i \in DOMAIN ts}
        hi == CHOOSE d \in days : \A e \in days : e <= d
        lo == CHOOSE d \in days : \A e \in days : d <= e
    IN  IF Cardinality(DOMAIN ts) < 2 THEN [ok |-> TRUE, none |-> TRUE, days |-> 0]
        ELSE IF \E i, j \in DOMAIN ts : ~Comparable(ts[i], ts[j])
             THEN [ok |-> FALSE, none |-> TRUE, days |-> 0]
             ELSE [ok |-> TRUE, none |-> FALSE, days |-> hi - lo]

FAST_DAYS == 7
SLOW_DAYS == 90

\* lines 155-165
RingBase(ring_size) ==
    CASE ring_size = 3 -> 40
      [] ring_size = 4 -> 30
      [] ring_size = 5 -> 20
      [] OTHER -> 0

\* StakeModifier with `ring_stake <= 0.1` for `ring_stake < 0.1`
StakeModifier_Inclusive(ring_stake) ==
    IF RLe(ring_stake, <<1, 10>>) THEN <<13, 10>>
    ELSE IF RLt(Rat(1), ring_stake) THEN <<7, 10>>
    ELSE Rat(1)

\* lines 168-174
StakeModifier(ring_stake) ==
    IF RLt(ring_stake, <<1, 10>>) THEN <<13, 10>>
    ELSE IF RLt(Rat(1), ring_stake) THEN <<7, 10>>
    ELSE Rat(1)

\* lines 177-183: `time_span and ...` is false for None and for timedelta(0)
TemporalModifier(time_span) ==
    LET truthy == ~time_span.none /\ time_span.days # 0
    IN  IF truthy /\ time_span.days < FAST_DAYS THEN <<13, 10>>
        ELSE IF truthy /\ time_span.days > SLOW_DAYS THEN <<8, 10>>
        ELSE Rat(1)

\* lines 154-186: the contribution of one ring (0 when the loop `continue`s)
RingContribution(g, ring) ==
    IF Len(ring) \notin {3, 4, 5} THEN Rat(0)
    ELSE RMul(RMul(Rat(RingBase(Len(ring))), StakeModifier(get_ring_stake(g, ring))),
              TemporalModifier(get_ring_time_span(g, ring)))

RECURSIVE ScoreLoop(_, _, _)
ScoreLoop(g, todo, score) ==
    IF todo = <<>> THEN score
    ELSE ScoreLoop(g, Tail(todo), RAdd(score, RingContribution(g, Head(todo))))

\* lines 125-188.  pre = [given, rings] is precomputed_rings (given = FALSE
\* for None).  The result is [ok, score]; ok = FALSE when get_ring_time_span
\* raises on a ring that is scored.
calculate_ring_score(g, profile_id, max_length, pre, budget) ==
    LET rs == IF pre.given
              THEN SelectSeq(pre.rings, LAMBDA r : InSeq(profile_id, r))
              ELSE get_rings_for_profile(g, profile_id, max_length, budget)
        raises == \E i \in 1..Len(rs) :
                     Len(rs[i]) \in {3, 4, 5} /\ ~get_ring_time_span(g, rs[i]).ok
    IN  IF rs = <<>> THEN [ok |-> TRUE, score |-> Rat(0)]
        ELSE IF raises THEN [ok |-> FALSE, score |-> Rat(0)]
        ELSE [ok |-> TRUE, score |-> RMin(Rat(100), ScoreLoop(g, rs, Rat(0)))]

\* lines 191-214
get_ring_stats(g, max_length, budget) ==
    LET rs == find_rings(g, max_length, DEFAULT_MAX_RINGS, budget)
        sizes == {Len(rs[i]) : i \in 1..Len(rs)}
        profiles_in_rings == UNION {Range(rs[i]) : i \in 1..Len(rs)}
    IN  [total_rings |-> Len(rs),
         rings_by_size |-> [s \in sizes |-> Cardinality({i \in 1..Len(rs) : Len(rs[i]) = s})],
         profiles_in_rings |-> Cardinality(profiles_in_rings),
         pct_profiles_in_rings |->
             IF Len(g.nodes) > 0
             THEN Norm(<<Cardinality(profiles_in_rings) * 100, Len(g.nodes)>>)
             ELSE Rat(0),
         rings |-> rs]

-----------------------------------------------------------------------------
(* detectors/clusters.py *)

\* All partitions of a set of nodes into non-empty blocks
RECURSIVE Partitions(_)
Partitions(S) ==
    IF S = {} THEN {{}}
    ELSE LET x == CHOOSE n \in S : \A m \in S : n <= m
         IN  UNION {{P \cup {B \cup {x}} : P \in Partitions((S \ {x}) \ B)} :
                    B \in SUBSET (S \ {x})}

\* the nodes that have no edge to or from another node
LoneNodes(g) ==
    {n \in Nodes(g) : (Range(g.succ[n]) \cup predecessors(g, n)) \ {n} = {}}

\* lines 6-18: the communities louvain_communities may return for the graph:
\* some partition of its nodes (the library picks one; which one depends on
\* the adjacency and its random seed), [] for the empty graph.  Louvain moves
\* a node only into the community of a neighbour, so a node without
\* neighbours stays a community of its own.
find_communities(g) ==
    IF Len(g.nodes) = 0 THEN {{}}
    ELSE {P \cup {{n} : n \in LoneNodes(g)} : P \in Partitions(Nodes(g) \ LoneNodes(g))}

RECURSIVE SumOver(_, _)
SumOver(f, S) ==
    IF S = {} THEN 0
    ELSE LET x == CHOOSE y \in S : TRUE IN f[x] + SumOver(f, S \ {x})

\* calculate_insularity without the loop over G.predecessors(node)
calculate_insularity_SuccessorsOnly(g, community) ==
    LET succIn(n)  == Cardinality({i \in 1..Len(g.succ[n]) : g.succ[n][i] \in community})
        succOut(n) == Cardinality({i \in 1..Len(g.succ[n]) : g.succ[n][i] \notin community})
        internal == SumOver([n \in community |-> succIn(n)], community) \div 2
        external == SumOver([n \in community |-> succOut(n)], community)
        total == internal + external
    IN  IF total = 0 THEN Rat(0) ELSE <<internal, total>>

\* calculate_insularity whose predecessor loop counts internal edges only
calculate_insularity_OutgoingExternal(g, community) ==
    LET succIn(n)  == Cardinality({i \in 1..Len(g.succ[n]) : g.succ[n][i] \in community})
        succOut(n) == Cardinality({i \in 1..Len(g.succ[n]) : g.succ[n][i] \notin community})
        predIn(n)  == Cardinality(predecessors(g, n) \cap community)
        internal == SumOver([n \in community |-> succIn(n) + predIn(n)], community) \div 2
        external == SumOver([n \in community |-> succOut(n)], community)
        total == internal + external
    IN  IF total = 0 THEN Rat(0) ELSE <<internal, total>>

\* lines 26-48
calculate_insularity(g, community) ==
    LET succIn(n)  == Cardinality({i \in 1..Len(g.succ[n]) : g.succ[n][i] \in community})
        succOut(n) == Cardinality({i \in 1..Len(g.succ[n]) : g.succ[n][i] \notin community})
        predIn(n)  == Cardinality(predecessors(g, n) \cap community)
        predOut(n) == Cardinality(predecessors(g, n) \ community)
        internal2 == SumOver([n \in community |-> succIn(n) + predIn(n)], community)
        external == SumOver([n \in community |-> succOut(n) + predOut(n)], community)
        internal == internal2 \div 2
        total == internal + external
    IN  IF total = 0 THEN Rat(0) ELSE <<internal, total>>

MIN_COMMUNITY == 3
DEFAULT_THRESHOLD == <<7, 10>>

\* precompute_cluster_data with `insularity > insularity_threshold`
precompute_cluster_data_Strict(g, insularity_threshold, communities) ==
    LET flagged == {c \in communities :
                       /\ ~(Cardinality(c) < MIN_COMMUNITY)
                       /\ RLt(insularity_threshold, calculate_insularity(g, c))}
    IN  [p \in UNION flagged |->
            LET c == CHOOSE d \in flagged : p \in d
            IN  <<calculate_insularity(g, c), Cardinality(c)>>]

\* lines 90-103, for the communities find_communities returned
precompute_cluster_data(g, insularity_threshold, communities) ==
    LET flagged == {c \in communities :
                       /\ ~(Cardinality(c) < MIN_COMMUNITY)
                       /\ RLe(insularity_threshold, calculate_insularity(g, c))}
    IN  [p \in UNION flagged |->
            LET c == CHOOSE d \in flagged : p \in d
            IN  <<calculate_insularity(g, c), Cardinality(c)>>]

SIZE_REF == 10

\* lines 128-130 and 142-145
ClusterFormula(insularity, size) ==
    LET base_score == RMul(insularity, Rat(100))
        size_factor == RMin(Rat(1), <<SIZE_REF, size>>)
    IN  RMin(Rat(100), RMul(base_score, RAdd(<<1, 2>>, RMul(<<1, 2>>, size_factor))))

\* lines 106-147.  pre = [given, data] is precomputed_clusters; communities is
\* what find_communities returns when the fallback path calls it.
calculate_cluster_score(g, profile_id, insularity_threshold, pre, communities) ==
    IF pre.given
    THEN IF profile_id \in DOMAIN pre.data
         THEN ClusterFormula(pre.data[profile_id][1], pre.data[profile_id][2])
         ELSE Rat(0)
    ELSE LET mine == {c \in communities :
                         /\ profile_id \in c
                         /\ RLe(insularity_threshold, calculate_insularity(g, c))}
         IN  IF mine = {} THEN Rat(0)
             ELSE LET c == CHOOSE d \in mine : TRUE
                  IN  ClusterFormula(calculate_insularity(g, c), Cardinality(c))

-----------------------------------------------------------------------------
(* detectors/bursts.py *)

\* lines 8-21: None when the value is absent or does not parse
parse_timestamp(raw) ==
    CASE raw.kind = "num" -> Stamp(raw.val, FALSE)
      [] raw.kind = "iso" -> Stamp(raw.val, FALSE)
      [] raw.kind = "isoZ" -> Stamp(raw.val, TRUE)
      [] OTHER -> NoTs

get_vouches_for_profile(vs, profile_id) ==
    SelectSeq(vs, LAMBDA v : v.subjectProfileId = profile_id)

\* lines 35-45: createdAt, then timestamp, then activityCheckpoints.vouched
RecordTimestamp(v) ==
    IF HasTs(parse_timestamp(v.createdAt)) THEN parse_timestamp(v.createdAt)
    ELSE IF HasTs(parse_timestamp(v.timestamp)) THEN parse_timestamp(v.timestamp)
    ELSE parse_timestamp(v.vouched)

\* ts.strftime("%Y-%W"): day 0 is Monday 1 January of year 0, years of 365 days
DAYS_PER_YEAR == 365
DAYS_PER_WEEK == 7
WindowKey(ts) ==
    LET yday == ts.t % DAYS_PER_YEAR
        wday == ts.t % DAYS_PER_WEEK
    IN  <<ts.t \div DAYS_PER_YEAR, (yday + DAYS_PER_WEEK - wday) \div DAYS_PER_WEEK>>

\* lines 29-52: window key -> number of vouches in the window
group_by_window(vs) ==
    LET dated == {i \in 1..Len(vs) : HasTs(RecordTimestamp(vs[i]))}
        keys == {WindowKey(RecordTimestamp(vs[i])) : i \in dated}
    IN  [k \in keys |-> Cardinality({i \in dated : WindowKey(RecordTimestamp(vs[i])) = k})]

MIN_VOUCHES == 10
MIN_WINDOWS == 3
STD_THRESHOLD == 3

\* detect_vouch_burst without the test `len(profile_vouches) < 10`
detect_vouch_burst_NoMinimum(vs, profile_id, std_threshold) ==
    LET profile_vouches == get_vouches_for_profile(vs, profile_id)
        windows == group_by_window(profile_vouches)
        n == Cardinality(DOMAIN windows)
        S == SumOver(windows, DOMAIN windows)
        Q == SumOver([k \in DOMAIN windows |-> windows[k] * windows[k]], DOMAIN windows)
        max_count == CHOOSE c \in {windows[k] : k \in DOMAIN windows} :
                         \A k \in DOMAIN windows : windows[k] <= c
    IN  IF n < MIN_WINDOWS THEN <<FALSE, 0>>
        ELSE IF n * Q - S * S = 0 THEN <<FALSE, 0>>
        ELSE <<(n * max_count - S) * (n * max_count - S)
                   > std_threshold * std_threshold * (n * Q - S * S), max_count>>

\* lines 72-92: <<has_burst, max_burst_size>>.  With n windows of sum S and
\* sum of squares Q: mean = S/n, std^2 = Q/n - (S/n)^2, and
\* (max - mean)/std > t  <=>  (n*max - S)^2 > t^2 * (n*Q - S^2).
detect_vouch_burst(vs, profile_id, std_threshold) ==
    LET profile_vouches == get_vouches_for_profile(vs, profile_id)
        windows == group_by_window(profile_vouches)
        n == Cardinality(DOMAIN windows)
        S == SumOver(windows, DOMAIN windows)
        Q == SumOver([k \in DOMAIN windows |-> windows[k] * windows[k]], DOMAIN windows)
        max_count == CHOOSE c \in {windows[k] : k \in DOMAIN windows} :
                         \A k \in DOMAIN windows : windows[k] <= c
    IN  IF Len(profile_vouches) < MIN_VOUCHES THEN <<FALSE, 0>>
        ELSE IF n < MIN_WINDOWS THEN <<FALSE, 0>>
        ELSE IF n * Q - S * S = 0 THEN <<FALSE, 0>>
        ELSE <<(n * max_count - S) * (n * max_count - S)
                   > std_threshold * std_threshold * (n * Q - S * S), max_count>>

\* lines 95-112
calculate_burst_score(vs, profile_id) ==
    LET r == detect_vouch_burst(vs, profile_id, STD_THRESHOLD)
    IN  IF ~r[1] THEN Rat(0)
        ELSE IF r[2] >= 50 THEN Rat(100)
        ELSE IF r[2] >= 30 THEN Rat(80)
        ELSE IF r[2] >= 20 THEN Rat(60)
        ELSE IF r[2] >= 10 THEN Rat(40)
        ELSE Rat(20)

\* lines 82-92 compute mean, std and z_score in floating point.  When the
\* largest count equals mean + std_threshold * std exactly, the rounding of
\* mean, std and the quotient decides whether z_score > std_threshold: the
\* outcomes of detect_vouch_burst are then both answers.
ZScoreTie(vs, profile_id, std_threshold) ==
    LET profile_vouches == get_vouches_for_profile(vs, profile_id)
        windows == group_by_window(profile_vouches)
        n == Cardinality(DOMAIN windows)
        S == SumOver(windows, DOMAIN windows)
        Q == SumOver([k \in DOMAIN windows |-> windows[k] * windows[k]], DOMAIN windows)
        max_count == CHOOSE c \in {windows[k] : k \in DOMAIN windows} :
                         \A k \in DOMAIN windows : windows[k] <= c
    IN  /\ Len(profile_vouches) >= MIN_VOUCHES
        /\ n >= MIN_WINDOWS
        /\ n * Q - S * S # 0
        /\ (n * max_count - S) * (n * max_count - S)
               = std_threshold * std_threshold * (n * Q - S * S)

detect_vouch_burst_outcomes(vs, profile_id, std_threshold) ==
    IF ZScoreTie(vs, profile_id, std_threshold)
    THEN {<<b, detect_vouch_burst(vs, profile_id, std_threshold)[2]>> : b \in BOOLEAN}
    ELSE {detect_vouch_burst(vs, profile_id, std_threshold)}

\* lines 99-112, for the answer of detect_vouch_burst
BurstScoreOf(r) ==
    IF ~r[1] THEN Rat(0)
    ELSE IF r[2] >= 50 THEN Rat(100)
    ELSE IF r[2] >= 30 THEN Rat(80)
    ELSE IF r[2] >= 20 THEN Rat(60)
    ELSE IF r[2] >= 10 THEN Rat(40)
    ELSE Rat(20)

calculate_burst_score_outcomes(vs, profile_id) ==
    {BurstScoreOf(r) : r \in detect_vouch_burst_outcomes(vs, profile_id, STD_THRESHOLD)}

-----------------------------------------------------------------------------
(* detectors/stakes.py *)

RECURSIVE RSum(_, _)
RSum(f, S) ==
    IF S = {} THEN Rat(0)
    ELSE LET x == CHOOSE y \in S : TRUE IN RAdd(f[x], RSum(f, S \ {x}))

MIN_STAKES == 3
TINY_STAKE == <<1, 100>>

\* calculate_stake_score with `if` for each `elif` of lines 38-43: the tiers of
\* the mean comparison add up
calculate_stake_score_Cumulative(g, profile_id) ==
    LET preds == predecessors(g, profile_id)
        num_vouches == Cardinality(preds)
        stake == [u \in preds |-> weight_of(g, u, profile_id)]
        avg_stake == RMul(RSum(stake, preds), <<1, num_vouches>>)
        all == [e \in Edges(g) |-> weight_of(g, e[1], e[2])]
        network_avg == IF Edges(g) # {}
                       THEN RMul(RSum(all, Edges(g)), <<1, Cardinality(Edges(g))>>)
                       ELSE <<1, 10>>
        low == IF RLt(Rat(0), network_avg)
               THEN (IF RLt(avg_stake, RMul(network_avg, <<1, 10>>)) THEN 50 ELSE 0)
                    + (IF RLt(avg_stake, RMul(network_avg, <<3, 10>>)) THEN 30 ELSE 0)
                    + (IF RLt(avg_stake, RMul(network_avg, <<5, 10>>)) THEN 15 ELSE 0)
               ELSE 0
        tiny_stakes == Cardinality({u \in preds : RLt(stake[u], TINY_STAKE)})
        tiny_ratio == <<tiny_stakes, num_vouches>>
        tiny == IF RLt(<<8, 10>>, tiny_ratio) THEN 50
                ELSE IF RLt(<<5, 10>>, tiny_ratio) THEN 30
                ELSE IF RLt(<<3, 10>>, tiny_ratio) THEN 15
                ELSE 0
    IN  IF num_vouches < MIN_STAKES THEN Rat(0)
        ELSE RMin(Rat(100), Rat(low + tiny))

\* lines 22-56
calculate_stake_score(g, profile_id) ==
    LET preds == predecessors(g, profile_id)
        num_vouches == Cardinality(preds)
        stake == [u \in preds |-> weight_of(g, u, profile_id)]
        avg_stake == RMul(RSum(stake, preds), <<1, num_vouches>>)
        all == [e \in Edges(g) |-> weight_of(g, e[1], e[2])]
        network_avg == IF Edges(g) # {}
                       THEN RMul(RSum(all, Edges(g)), <<1, Cardinality(Edges(g))>>)
                       ELSE <<1, 10>>
        low == IF RLt(Rat(0), network_avg)
               THEN IF RLt(avg_stake, RMul(network_avg, <<1, 10>>)) THEN 50
                    ELSE IF RLt(avg_stake, RMul(network_avg, <<3, 10>>)) THEN 30
                    ELSE IF RLt(avg_stake, RMul(network_avg, <<5, 10>>)) THEN 15
                    ELSE 0
               ELSE 0
        tiny_stakes == Cardinality({u \in preds : RLt(stake[u], TINY_STAKE)})
        tiny_ratio == <<tiny_stakes, num_vouches>>
        tiny == IF RLt(<<8, 10>>, tiny_ratio) THEN 50
                ELSE IF RLt(<<5, 10>>, tiny_ratio) THEN 30
                ELSE IF RLt(<<3, 10>>, tiny_ratio) THEN 15
                ELSE 0
    IN  IF num_vouches < MIN_STAKES THEN Rat(0)
        ELSE RMin(Rat(100), Rat(low + tiny))

-----------------------------------------------------------------------------
(* detectors/reciprocity.py *)

\* calculate_reciprocity_ratio returning 0.0 for a profile that received nothing
calculate_reciprocity_ratio_ZeroNeutral(g, profile_id) ==
    LET received == in_degree(g, profile_id)
        given == out_degree(g, profile_id)
    IN  IF received = 0 THEN Rat(0) ELSE <<given, received>>

\* calculate_reciprocity_ratio returning received / given
calculate_reciprocity_ratio_Inverted(g, profile_id) ==
    LET received == in_degree(g, profile_id)
        given == out_degree(g, profile_id)
    IN  IF received = 0 THEN Rat(1) ELSE <<received, given>>

\* lines 5-13
calculate_reciprocity_ratio(g, profile_id) ==
    LET received == in_degree(g, profile_id)
        given == out_degree(g, profile_id)
    IN  IF received = 0 THEN Rat(1) ELSE <<given, received>>

MIN_RECEIVED == 5

\* calculate_reciprocity_score without the test `received < 5`
calculate_reciprocity_score_NoMinimum(g, profile_id) ==
    LET ratio == calculate_reciprocity_ratio(g, profile_id)
        received == in_degree(g, profile_id)
    IN  IF RLt(ratio, <<5, 100>>) /\ received > 20 THEN Rat(80)
        ELSE IF RLt(ratio, <<1, 10>>) /\ received > 10 THEN Rat(60)
        ELSE IF RLt(ratio, <<2, 10>>) THEN Rat(40)
        ELSE IF RLt(Rat(10), ratio) THEN Rat(20)
        ELSE Rat(0)

\* lines 16-41
calculate_reciprocity_score(g, profile_id) ==
    LET ratio == calculate_reciprocity_ratio(g, profile_id)
        received == in_degree(g, profile_id)
    IN  IF received < MIN_RECEIVED THEN Rat(0)
        ELSE IF RLt(ratio, <<5, 100>>) /\ received > 20 THEN Rat(80)
        ELSE IF RLt(ratio, <<1, 10>>) /\ received > 10 THEN Rat(60)
        ELSE IF RLt(ratio, <<2, 10>>) THEN Rat(40)
        ELSE IF RLt(Rat(10), ratio) THEN Rat(20)
        ELSE Rat(0)

-----------------------------------------------------------------------------
(* scorer.py *)

\* round(x, 2), in hundredths: round half to even
Round2(r) ==
    LET n == r[1] * 100
        q == n \div r[2]
        m == n % r[2]
    IN  IF 2 * m < r[2] THEN <<q, 100>>
        ELSE IF 2 * m > r[2] THEN <<q + 1, 100>>
        ELSE IF q % 2 = 0 THEN <<q, 100>> ELSE <<q + 1, 100>>

\* lines 32-42
to_dict(b) ==
    [ring_score |-> Round2(b.ring_score),
     cluster_score |-> Round2(b.cluster_score),
     burst_score |-> Round2(b.burst_score),
     stake_score |-> Round2(b.stake_score),
     reciprocity_score |-> Round2(b.reciprocity_score),
     composite_score |-> Round2(b.composite_score),
     risk_level |-> b.risk_level]

\* lines 46-52; given = FALSE stands for weights = None (or an empty dict)
DEFAULT_WEIGHTS ==
    [given |-> FALSE, ring |-> <<30, 100>>, cluster |-> <<25, 100>>, burst |-> <<20, 100>>,
     stake |-> <<15, 100>>, reciprocity |-> <<10, 100>>]

\* get_risk_level with `score > bound` for `score >= bound`
get_risk_level_Strict(score) ==
    IF RLt(Rat(70), score) THEN "critical"
    ELSE IF RLt(Rat(50), score) THEN "high"
    ELSE IF RLt(Rat(30), score) THEN "medium"
    ELSE IF RLt(Rat(10), score) THEN "low"
    ELSE "minimal"

\* lines 55-66
get_risk_level(score) ==
    IF RLe(Rat(70), score) THEN "critical"
    ELSE IF RLe(Rat(50), score) THEN "high"
    ELSE IF RLe(Rat(30), score) THEN "medium"
    ELSE IF RLe(Rat(10), score) THEN "low"
    ELSE "minimal"

\* Composite without the cap at 100
Composite_Unclamped(w, ring, cluster, burst, stake, reciprocity) ==
    RAdd(RAdd(RAdd(RAdd(RMul(w.ring, ring), RMul(w.cluster, cluster)),
                   RMul(w.burst, burst)),
              RMul(w.stake, stake)),
         RMul(w.reciprocity, reciprocity))

\* lines 119-129
Composite(w, ring, cluster, burst, stake, reciprocity) ==
    RMin(Rat(100),
         RAdd(RAdd(RAdd(RAdd(RMul(w.ring, ring), RMul(w.cluster, cluster)),
                        RMul(w.burst, burst)),
                   RMul(w.stake, stake)),
              RMul(w.reciprocity, reciprocity)))

Breakdown(ring, cluster, burst, stake, reciprocity, composite, level) ==
    [ring_score |-> ring, cluster_score |-> cluster, burst_score |-> burst,
     stake_score |-> stake, reciprocity_score |-> reciprocity,
     composite_score |-> composite, risk_level |-> level]

AllDetectors == {"ring", "cluster", "burst", "stake", "reciprocity"}

\* line 94: w = weights or DEFAULT_WEIGHTS
EffectiveWeights(ws) == IF ws.given THEN ws ELSE DEFAULT_WEIGHTS

\* lines 119-139: the breakdown for the five detector results
RiskFromScores(ws, ring, cluster, burst, stake, reciprocity) ==
    LET composite == Composite(EffectiveWeights(ws), ring, cluster, burst, stake, reciprocity)
    IN  Breakdown(ring, cluster, burst, stake, reciprocity, composite,
                  get_risk_level(composite))

\* lines 97-106
OfficialBreakdown == Breakdown(Rat(0), Rat(0), Rat(0), Rat(0), Rat(0), Rat(0), "official")

\* lines 94-139.  pre_rings = [given, rings], pre_clusters = [given, data];
\* communities and budget feed the detectors' fallback paths.  The result is
\* [ok, breakdown, invoked]: ok = FALSE when a detector raises, invoked is the
\* set of detectors that were called.
calculate_risk_score(g, profile_id, vs, ws, pre_rings, pre_clusters, communities, budget) ==
    LET ring == calculate_ring_score(g, profile_id, 5, pre_rings, budget)
    IN  IF is_official_account(g, profile_id)
        THEN [ok |-> TRUE, breakdown |-> OfficialBreakdown, invoked |-> {}]
        ELSE IF ~ring.ok
        THEN [ok |-> FALSE, breakdown |-> OfficialBreakdown, invoked |-> {"ring"}]
        ELSE [ok |-> TRUE,
              breakdown |->
                  RiskFromScores(ws, ring.score,
                                 calculate_cluster_score(g, profile_id, DEFAULT_THRESHOLD,
                                                         pre_clusters, communities),
                                 calculate_burst_score(vs, profile_id),
                                 calculate_stake_score(g, profile_id),
                                 calculate_reciprocity_score(g, profile_id)),
              invoked |-> AllDetectors]

\* lines 162-172: the entry of one profile
ResultEntry(profile_id, b) ==
    [profile_id |-> profile_id] @@ to_dict(b)

\* SortResults without reverse=True
SortResults_Ascending(rs) ==
    SortedReverse(rs, [i \in 1..Len(rs) |-> 0 - rs[i].composite_score[1]])

\* line 175
SortResults(rs) ==
    SortedReverse(rs, [i \in 1..Len(rs) |-> rs[i].composite_score[1]])

-----------------------------------------------------------------------------
(* The pipeline of main.py: build_vouch_graph, then analyze_all_profiles *)

NoRings == [given |-> FALSE, rings |-> <<>>]
NoClusters == [given |-> FALSE, data |-> <<>>]
NoCalls == [find_rings |-> 0, find_communities |-> 0, detectors |-> 0]

\* A vouch record
Vouch(a, s, wei, users_) ==
    [authorProfileId |-> a, subjectProfileId |-> s, balance |-> wei,
     vouchedAt |-> RawNone, vouched |-> RawNone, createdAt |-> RawNone,
     timestamp |-> RawNone, authorUser |-> users_[a], subjectUser |-> users_[s]]

\* Inputs of the pipeline.  Profile ids are opaque to the code (it only tests
\* them for equality), so the records name new profiles in the order 1, 2, 3,
\* ...; balances are 0 or 0.5 ETH; no record carries a timestamp.
Balances == {0, 500}
NewProfileIds(g) == 1..(IF Len(g.nodes) < MaxNode THEN Len(g.nodes) + 1 ELSE MaxNode)

\* The user objects of the profiles: none at all, or official accounts
\* (written in another case than the list has them) among ordinary users, one
\* of them with an empty username.
NoUsers == [n \in NodeIds |-> NoUser]
OfficialUsers ==
    [n \in NodeIds |-> CASE n = 1 -> "Base" [] n = 2 -> "alice" [] n = 3 -> ""
                         [] OTHER -> "COINBASE"]

\* the ring search of the pipeline is not cut short by its 60 s budget
NoTimeout(g) == Len(g.nodes)

InitWith(directories) ==
    /\ pc = "build"
    /\ vouches = <<>>
    /\ G = EmptyGraph
    /\ rings = NoRings
    /\ parts = {}
    /\ clusters = NoClusters
    /\ users \in directories
    /\ weights = DEFAULT_WEIGHTS
    /\ profile = 0
    /\ results = <<>>
    /\ out = 0
    /\ calls = NoCalls

Init == InitWith({NoUsers})
InitOfficial == InitWith({OfficialUsers})

\* build_vouch_graph, one record of the loop
AddVouch ==
    /\ pc = "build"
    /\ Len(vouches) < MaxVouches
    /\ \E a \in NewProfileIds(G), s \in NodeIds, wei \in Balances :
          LET v == Vouch(a, s, wei, users)
              r == BuildStep(G, v)
          IN  /\ s <= (IF a > Len(G.nodes) THEN a ELSE Len(G.nodes)) + 1
              /\ vouches' = Append(vouches, v)
              /\ G' = r.g
              /\ pc' = IF r.ok THEN "build" ELSE "raised"
    /\ UNCHANGED <<rings, parts, clusters, users, weights, profile, results, out, calls>>

\* GetRingStats whose rings are not handed on: precomputed_rings stays None
GetRingStats_NotReused ==
    /\ pc = "build"
    /\ rings' = NoRings
    /\ calls' = [calls EXCEPT !.find_rings = @ + 1]
    /\ pc' = "clusters"
    /\ UNCHANGED <<vouches, G, parts, clusters, users, weights, profile, results, out>>

\* analyze_all_profiles, lines 158-159: ring_stats = get_ring_stats(G, max_length=5)
GetRingStats ==
    /\ pc = "build"
    /\ rings' = [given |-> TRUE, rings |-> get_ring_stats(G, 5, NoTimeout(G)).rings]
    /\ calls' = [calls EXCEPT !.find_rings = @ + 1]
    /\ pc' = "clusters"
    /\ UNCHANGED <<vouches, G, parts, clusters, users, weights, profile, results, out>>

\* line 160: precomputed_clusters = precompute_cluster_data(G), for one of the
\* partitions find_communities may return.  With no node in the graph the
\* loop of lines 163-172 has no iteration, and lines 174-177 return [].
PrecomputeClusters ==
    /\ pc = "clusters"
    /\ \E communities \in find_communities(G) :
          clusters' = [given |-> TRUE,
                       data |-> precompute_cluster_data(G, DEFAULT_THRESHOLD, communities)]
    /\ calls' = [calls EXCEPT !.find_communities = @ + 1]
    /\ profile' = 1
    /\ results' = SortResults(<<>>)
    /\ pc' = IF Len(G.nodes) = 0 THEN "done" ELSE "score"
    /\ UNCHANGED <<vouches, G, rings, parts, users, weights, out>>

\* lines 163-172: one iteration of the loop over G.nodes(); after the last
\* one, lines 174-177: results.sort(...) and return.  calculate_ring_score
\* runs find_rings (rings.py 145-148) and calculate_cluster_score runs
\* find_communities (clusters.py 133-134) when they are handed None.
ScoreProfile ==
    /\ pc = "score"
    /\ \E r \in {calculate_risk_score(G, G.nodes[profile], vouches, weights, rings,
                                      clusters, {}, NoTimeout(G))} :
          \E appended \in {IF r.ok
                           THEN Append(results, ResultEntry(G.nodes[profile], r.breakdown))
                           ELSE results} :
             /\ calls' = [calls EXCEPT
                             !.detectors = @ + Cardinality(r.invoked),
                             !.find_rings =
                                 IF "ring" \in r.invoked /\ ~rings.given THEN @ + 1 ELSE @,
                             !.find_communities =
                                 IF "cluster" \in r.invoked /\ ~clusters.given
                                 THEN @ + 1 ELSE @]
             /\ IF ~r.ok
                THEN results' = appended /\ pc' = "raised"
                ELSE IF profile < Len(G.nodes)
                THEN results' = appended /\ pc' = "score"
                ELSE results' = SortResults(appended) /\ pc' = "done"
    /\ profile' = profile + 1
    /\ UNCHANGED <<vouches, G, rings, parts, clusters, users, weights, out>>

Next ==
    \/ AddVouch
    \/ GetRingStats
    \/ PrecomputeClusters
    \/ ScoreProfile

Spec == Init /\ [][Next]_vars
SpecOfficial == InitOfficial /\ [][Next]_vars

-----------------------------------------------------------------------------
(* Properties of the pipeline *)

Distinct(s) == \A i, j \in 1..Len(s) : i # j => s[i] # s[j]
IsCycleOf(g, ring) == \A i \in 1..Len(ring) : has_edge(g, RingPair(ring, i)[1], RingPair(ring, i)[2])

\* C2: every ring find_rings returns is a list of 3 to max_length pairwise
\* distinct nodes whose consecutive pairs and wrap-around pair are edges.
C2_RingsAreSimpleCycles ==
    rings.given =>
        \A i \in 1..Len(rings.rings) :
            LET ring == rings.rings[i]
            IN  /\ Len(ring) >= 3
                /\ Len(ring) <= 5
                /\ Distinct(ring)
                /\ IsCycleOf(G, ring)

IndexOf(s, x) == CHOOSE i \in 1..Len(s) : s[i] = x

\* C10: analyze_all_profiles returns one entry per node, by non-increasing
\* composite_score, entries of equal composite_score in the order of G.nodes().
C10_SortedStable ==
    pc = "done" =>
        /\ Len(results) = Len(G.nodes)
        /\ \A n \in Nodes(G) :
              Cardinality({i \in 1..Len(results) : results[i].profile_id = n}) = 1
        /\ \A i, j \in 1..Len(results) :
              i < j =>
                  /\ ~RLt(results[i].composite_score, results[j].composite_score)
                  /\ REq(results[i].composite_score, results[j].composite_score)
                        => IndexOf(G.nodes, results[i].profile_id)
                               < IndexOf(G.nodes, results[j].profile_id)

\* a run that returned three entries, the sort having moved a later node in
\* front of an earlier one and kept two nodes of equal score in node order
C10_Witness ==
    /\ pc = "done"
    /\ Len(results) = 3
    /\ \E i, j \in 1..3 :
          /\ i < j
          /\ IndexOf(G.nodes, results[i].profile_id) > IndexOf(G.nodes, results[j].profile_id)
    /\ \E i, j \in 1..3 :
          i < j /\ REq(results[i].composite_score, results[j].composite_score)

\* The usernames that equal an official account when case is ignored
OfficialNames == OFFICIAL_ACCOUNTS \cup {"Base", "COINBASE", "Optimism"}
RiskLevels == {"critical", "high", "medium", "low", "minimal"}
ScoreFields(e) ==
    <<e.ring_score, e.cluster_score, e.burst_score, e.stake_score, e.reciprocity_score,
      e.composite_score>>

\* C9: a node whose username is an official account (case ignored) gets all
\* subscores 0, composite 0 and level "official", no detector being invoked;
\* every other node gets one of the five risk levels.
C9_OfficialBypass ==
    /\ \A i \in 1..Len(results) :
          LET e == results[i]
          IN  IF G.user[e.profile_id] \in OfficialNames
              THEN /\ e.risk_level = "official"
                   /\ \A k \in 1..6 : ScoreFields(e)[k][1] = 0
              ELSE e.risk_level \in RiskLevels
    /\ pc \in {"score", "done"} =>
          calls.detectors =
              5 * Cardinality({i \in 1..Len(results) :
                                  G.user[results[i].profile_id] \notin OfficialNames})

\* an official account and an ordinary profile have both been scored
C9_Witness ==
    /\ \E i \in 1..Len(results) :
          G.user[results[i].profile_id] = "Base" /\ results[i].risk_level = "official"
    /\ \E i \in 1..Len(results) :
          G.user[results[i].profile_id] = "" /\ results[i].risk_level \in RiskLevels
    /\ \E i \in 1..Len(results) : results[i].composite_score[1] > 0

-----------------------------------------------------------------------------
(* calculate_ring_score as a function: graphs, ring lists and profiles drawn  *)
(* from bounded sets                                                        *)

MaxCycle == 6

\* the directed cycle 1 -> 2 -> ... -> n -> 1
CycleEdges(n) == [i \in 1..n |-> <<i, (i % n) + 1>>]

\* The weight every edge of the cycle carries: no weight attribute, 0, 0.02,
\* 0.25 or 0.5 ETH
CycleWeights == {NoWeight, <<0, 1>>, <<1, 50>>, <<1, 4>>, <<1, 2>>}

\* The timestamps of the cycle's edges, by the number of the edge
TsPatterns == {"none", "one", "same", "fast", "week", "ninety", "slow"}
CycleStamp(pattern, i) ==
    CASE pattern = "none" -> NoTs
      [] pattern = "one" -> IF i = 1 THEN Stamp(5, FALSE) ELSE NoTs
      [] pattern = "same" -> Stamp(5, FALSE)
      [] pattern = "fast" -> Stamp(i, FALSE)
      [] pattern = "week" -> IF i = 1 THEN Stamp(1, FALSE) ELSE Stamp(8, FALSE)
      [] pattern = "ninety" -> IF i = 1 THEN Stamp(1, FALSE)
                               ELSE IF i = 2 THEN Stamp(91, FALSE) ELSE NoTs
      [] pattern = "slow" -> IF i = 1 THEN Stamp(1, FALSE)
                             ELSE IF i = 2 THEN Stamp(92, FALSE) ELSE NoTs

\* the cycle on 1..n with these attributes, and node n + 1 without any edge
CycleGraph(n, w, pattern) ==
    add_node(add_edges_from(EmptyGraphOn(1..(n + 1)), CycleEdges(n),
                            [i \in 1..n |-> [weight |-> w, count |-> 1,
                                             timestamp |-> CycleStamp(pattern, i)]]),
             n + 1)

\* Ring lists handed in as precomputed_rings: up to two of the cycle itself,
\* the cycle started at node 2, and the paths 1..k for k < n
RingCandidates(n) ==
    {[i \in 1..k |-> i] : k \in 2..n} \cup {[i \in 1..n |-> (i % n) + 1]}
RingLists(n) ==
    {<<>>} \cup {<<r>> : r \in RingCandidates(n)}
           \cup {<<r, q>> : r \in RingCandidates(n), q \in RingCandidates(n)}

InitFunction ==
    /\ vouches = <<>>
    /\ clusters = NoClusters
    /\ users = NoUsers
    /\ weights = DEFAULT_WEIGHTS
    /\ profile = 0
    /\ results = <<>>
    /\ out = 0
    /\ calls = NoCalls

InitRingScore ==
    /\ InitFunction
    /\ parts = {}
    /\ pc = "call"
    /\ \E n \in 3..MaxCycle, w \in CycleWeights, pattern \in TsPatterns :
          /\ G = CycleGraph(n, w, pattern)
          /\ rings \in {NoRings} \cup {[given |-> TRUE, rings |-> l] : l \in RingLists(n)}

\* score = calculate_ring_score(G, profile_id, max_length=5, precomputed_rings)
CallRingScore ==
    /\ pc = "call"
    /\ \E profile_id \in Nodes(G) :
          /\ profile' = profile_id
          /\ out' = calculate_ring_score(G, profile_id, 5, rings, NoTimeout(G))
    /\ calls' = IF rings.given THEN calls ELSE [calls EXCEPT !.find_rings = @ + 1]
    /\ pc' = "returned"
    /\ UNCHANGED <<vouches, G, rings, parts, clusters, users, weights, results>>

NextRingScore == CallRingScore

SpecRingScore == InitRingScore /\ [][NextRingScore]_vars

\* the rings calculate_ring_score goes through for the profile
UsedRings ==
    IF rings.given THEN rings.rings
    ELSE find_rings(G, 5, DEFAULT_MAX_RINGS, NoTimeout(G))
RingsOf(p) == {i \in 1..Len(UsedRings) : InSeq(p, UsedRings[i])}
RingEdges(ring) == {RingPair(ring, i) : i \in 1..Len(ring)} \cap Edges(G)

\* C1: a profile in exactly one ring, of 3 nodes, whose edges carry no
\* timestamp, has ring score exactly 40.0.
C1_OneTriangleScores40 ==
    (pc = "returned" /\ out.ok) =>
        \A i \in RingsOf(profile) :
            (/\ RingsOf(profile) = {i}
             /\ Len(UsedRings[i]) = 3
             /\ Distinct(UsedRings[i])
             /\ IsCycleOf(G, UsedRings[i])
             /\ \A e \in RingEdges(UsedRings[i]) : ~HasTs(G.edge[e].timestamp))
            => REq(out.score, Rat(40))

\* the claim's stake modifier, in tenths, from the summed weight of the
\* ring's edges
ClaimStakeTenths(ring) ==
    LET total == RSum([e \in RingEdges(ring) |-> weight_of(G, e[1], e[2])], RingEdges(ring))
    IN  IF total[1] * 10 < total[2] THEN 13
        ELSE IF total[1] > total[2] THEN 7
        ELSE 10
ClaimBase(size) == IF size = 3 THEN 40 ELSE IF size = 4 THEN 30 ELSE IF size = 5 THEN 20 ELSE 0
\* base * stake_modifier * temporal_modifier of a ring, in thousandths of a point
ClaimContribution(ring) ==
    LET tm == TemporalModifier(get_ring_time_span(G, ring))
    IN  ClaimBase(Len(ring)) * ClaimStakeTenths(ring) * ((tm[1] * 10) \div tm[2]) * 10

-----------------------------------------------------------------------------
(* find_rings and get_ring_stats as functions: unions of disjoint cycles and *)
(* acyclic graphs                                                           *)

MaxCycleNodes == 7
MaxDagNodes == 4

\* One or two cycle lengths from 3 to 5 that fit into MaxCycleNodes nodes
CycleLengths ==
    {<<a>> : a \in 3..5}
        \cup {l \in {<<a, b>> : a \in 3..5, b \in 3..5} : l[1] + l[2] <= MaxCycleNodes}

\* the cycle 1 -> ... -> l[1] -> 1 and, for two lengths, the cycle on the
\* next l[2] nodes
UnionEdges(l) ==
    IF Len(l) = 1 THEN CycleEdges(l[1])
    ELSE CycleEdges(l[1]) \o [i \in 1..l[2] |-> <<l[1] + i, l[1] + (i % l[2]) + 1>>]

Rotate(s, r) == [i \in 1..Len(s) |-> s[((i + r - 1) % Len(s)) + 1]]
Reverse(s) == [i \in 1..Len(s) |-> s[Len(s) + 1 - i]]

PlainAttrs(n) == [i \in 1..n |-> [weight |-> NoWeight, count |-> 1, timestamp |-> NoTs]]

\* the pairs (i, j), i < j, of 1..n in lexicographic order
ForwardPairs(n) ==
    LET idx(i, j) == (i - 1) * n + j
        pairs == {<<i, j>> : i \in 1..n, j \in 1..n}
        fwd == {q \in pairs : q[1] < q[2]}
        rank(q) == 1 + Cardinality({r \in fwd : idx(r[1], r[2]) < idx(q[1], q[2])})
    IN  [k \in 1..Cardinality(fwd) |-> CHOOSE q \in fwd : rank(q) = k]

\* G.add_edges_from(edges) on an empty graph over the ids 1..n
PlainGraph(n, edges) == add_edges_from(EmptyGraphOn(1..n), edges, PlainAttrs(Len(edges)))

InitCycles ==
    /\ InitFunction
    /\ parts = {}
    /\ pc = "call"
    /\ rings = NoRings
    /\ \/ \E l \in CycleLengths, r \in 0..(MaxCycleNodes - 1), backwards \in BOOLEAN :
             LET edges == Rotate(UnionEdges(l), r % Len(UnionEdges(l)))
             IN  G = PlainGraph(MaxCycleNodes, IF backwards THEN Reverse(edges) ELSE edges)
       \/ \E chosen \in SUBSET (1..Len(ForwardPairs(MaxDagNodes))), backwards \in BOOLEAN :
             LET edges == SelectSeq(ForwardPairs(MaxDagNodes),
                                    LAMBDA q : \E k \in chosen : ForwardPairs(MaxDagNodes)[k] = q)
             IN  G = PlainGraph(MaxDagNodes, IF backwards THEN Reverse(edges) ELSE edges)

\* rings = find_rings(G, max_length=5)
CallFindRings ==
    /\ pc = "call"
    /\ out' = [fn |-> "find_rings", rings |-> find_rings(G, 5, DEFAULT_MAX_RINGS, NoTimeout(G))]
    /\ calls' = [calls EXCEPT !.find_rings = @ + 1]
    /\ pc' = "returned"
    /\ UNCHANGED <<vouches, G, rings, parts, clusters, users, weights, profile, results>>

\* stats = get_ring_stats(G, max_length=5)
CallGetRingStats ==
    /\ pc = "call"
    /\ out' = [fn |-> "get_ring_stats"] @@ get_ring_stats(G, 5, NoTimeout(G))
    /\ calls' = [calls EXCEPT !.find_rings = @ + 1]
    /\ pc' = "returned"
    /\ UNCHANGED <<vouches, G, rings, parts, clusters, users, weights, profile, results>>

NextCycles == CallFindRings \/ CallGetRingStats

SpecCycles == InitCycles /\ [][NextCycles]_vars

\* the nodes reachable from the set S along edges (S included)
RECURSIVE Closure(_, _)
Closure(g, S) ==
    LET T == S \cup {v \in Nodes(g) : \E u \in S : has_edge(g, u, v)}
    IN  IF T = S THEN S ELSE Closure(g, T)

HasDirectedCycle(g) == \E n \in Nodes(g) : n \in Closure(g, Range(g.succ[n])) /\ g.succ[n] # <<>>

\* every node has exactly one successor and one predecessor, and its cycle
\* has 3 to 5 nodes
CycleOf(g, n) == Closure(g, {n})
IsCycleUnion(g) ==
    /\ Nodes(g) # {}
    /\ \A n \in Nodes(g) :
          /\ out_degree(g, n) = 1
          /\ in_degree(g, n) = 1
          /\ Cardinality(CycleOf(g, n)) \in 3..5
CyclesOf(g) == {CycleOf(g, n) : n \in Nodes(g)}

\* C3: on a disjoint union of simple cycles of 3 to 5 nodes find_rings
\* (max_length 5) returns exactly one ring per cycle, with that cycle's node
\* set, and get_ring_stats counts them in total and by size; on a graph
\* without a directed cycle find_rings returns no ring.
C3_OneRingPerCycle ==
    pc = "returned" =>
        /\ IsCycleUnion(G) =>
              /\ Len(out.rings) = Cardinality(CyclesOf(G))
              /\ {Range(out.rings[i]) : i \in 1..Len(out.rings)} = CyclesOf(G)
              /\ out.fn = "get_ring_stats" =>
                    /\ out.total_rings = Cardinality(CyclesOf(G))
                    /\ \A k \in 3..5 :
                          LET n == Cardinality({c \in CyclesOf(G) : Cardinality(c) = k})
                          IN  IF n = 0 THEN k \notin DOMAIN out.rings_by_size
                              ELSE k \in DOMAIN out.rings_by_size /\ out.rings_by_size[k] = n
        /\ ~HasDirectedCycle(G) => out.rings = <<>>

\* get_ring_stats has counted a triangle and a square
C3_Witness ==
    /\ pc = "returned"
    /\ out.fn = "get_ring_stats"
    /\ IsCycleUnion(G)
    /\ out.total_rings = 2
    /\ DOMAIN out.rings_by_size = {3, 4}

-----------------------------------------------------------------------------
(* calculate_insularity as a function: small graphs, any community          *)

MaxInsNodes == 3
MaxInsEdges == 3

\* the pairs of 1..n, self-loops included, in lexicographic order
AllPairs(n) == [k \in 1..(n * n) |-> <<((k - 1) \div n) + 1, ((k - 1) % n) + 1>>]

\* the graphs on the nodes 1..n with at most m edges (nodes without an edge
\* are added with G.add_node)
RECURSIVE AddNodes(_, _)
AddNodes(g, n) == IF n = 0 THEN g ELSE add_node(AddNodes(g, n - 1), n)
SmallGraphs(n, m) ==
    {AddNodes(PlainGraph(n, SelectSeq(AllPairs(n), LAMBDA q : q \in chosen)), n) :
         chosen \in {c \in SUBSET Range(AllPairs(n)) : Cardinality(c) <= m}}

InitInsularity ==
    /\ InitFunction
    /\ parts = {}
    /\ pc = "call"
    /\ rings = NoRings
    /\ G \in SmallGraphs(MaxInsNodes, MaxInsEdges)

\* a community is a non-empty set of nodes of the graph
Communities(g) == (SUBSET Nodes(g)) \ {{}}

\* insularity = calculate_insularity(G, community)
CallInsularity ==
    /\ pc = "call"
    /\ \E community \in Communities(G) :
          /\ parts' = {community}
          /\ out' = [fn |-> "calculate_insularity", community |-> community,
                     value |-> calculate_insularity(G, community)]
    /\ pc' = "returned"
    /\ UNCHANGED <<vouches, G, rings, clusters, users, weights, profile, results, calls>>

\* G.add_edge(u, v) for an edge the graph does not have
AddEdge ==
    /\ pc = "call"
    /\ \E u \in Nodes(G), v \in Nodes(G) :
          /\ ~has_edge(G, u, v)
          /\ G' = add_edge(G, u, v, [weight |-> NoWeight, count |-> 1, timestamp |-> NoTs])
    /\ pc' = "edited"
    /\ UNCHANGED <<vouches, rings, parts, clusters, users, weights, profile, results, out, calls>>

NextInsularity == CallInsularity \/ AddEdge

SpecInsularity == InitInsularity /\ [][NextInsularity]_vars

InternalEdges(g, c) == {e \in Edges(g) : e[1] \in c /\ e[2] \in c}
ExternalEdges(g, c) == {e \in Edges(g) : (e[1] \in c) # (e[2] \in c)}

\* C5 as claimed: insularity is exactly 1.0 for every community without an
\* edge to or from a node outside it.
C5_SelfContainedIsOne ==
    (pc = "returned" /\ ExternalEdges(G, out.community) = {}) => REq(out.value, Rat(1))

\* C5 as amended: insularity is exactly 1.0 for every community that has an
\* edge between its members and no edge to or from a node outside it.
C5_SelfContainedWithEdgeIsOne ==
    (pc = "returned" /\ ExternalEdges(G, out.community) = {}
                     /\ InternalEdges(G, out.community) # {})
        => (out.value[1] = out.value[2] /\ out.value[2] > 0)

\* a community of three nodes with internal edges only, one of them a self-loop
C5_Witness ==
    /\ pc = "returned"
    /\ Cardinality(out.community) = 3
    /\ ExternalEdges(G, out.community) = {}
    /\ \E e \in InternalEdges(G, out.community) : e[1] = e[2]
    /\ \E e \in InternalEdges(G, out.community) : e[1] # e[2]
    /\ REq(out.value, Rat(1))

\* the step adds one edge between a member of c and a non-member
AddsBridge(c) ==
    /\ pc = "call"
    /\ pc' = "edited"
    /\ \E e \in Edges(G') \ Edges(G) : (e[1] \in c) # (e[2] \in c)

\* C6 as claimed: adding an edge between a member and a non-member makes
\* the insularity of the community strictly smaller.
C6_BridgeLowersInsularity ==
    [][\A c \in Communities(G) :
          AddsBridge(c) => RLt(calculate_insularity(G', c), calculate_insularity(G, c))]_vars

\* C6 as amended: adding an edge between a member and a non-member makes the
\* insularity strictly smaller when the community has an edge between its
\* members, and leaves it at 0 otherwise.
C6_BridgeLowersInsularityWithEdge ==
    [][\A c \in Communities(G) :
          AddsBridge(c) =>
              IF InternalEdges(G, c) # {}
              THEN RLt(calculate_insularity(G', c), calculate_insularity(G, c))
              ELSE calculate_insularity(G', c)[1] = 0 /\ calculate_insularity(G, c)[1] = 0]_vars

\* a graph in which the community {1, 2} has one internal and two external
\* edges, the second one added last (insularity 1/2 before, 1/3 after)
C6_Witness ==
    /\ pc = "edited"
    /\ Cardinality(InternalEdges(G, {1, 2})) = 1
    /\ Cardinality(ExternalEdges(G, {1, 2})) = 2
    /\ REq(calculate_insularity(G, {1, 2}), <<1, 3>>)

-----------------------------------------------------------------------------
(* precompute_cluster_data and calculate_cluster_score as functions          *)

MaxCommunity == 12

\* the pairs inside the community {1, 2, 3} and the pairs between it and node 4
InsidePairs == AllPairs(3)
OutsidePairs == <<<<1, 4>>, <<4, 1>>, <<2, 4>>, <<4, 2>>, <<3, 4>>, <<4, 3>>>>

\* a cycle on 1..n split into the blocks 1..m and m+1..n (one block for m = n)
Blocks(n, m) == {1..m, (m + 1)..n} \ {{}}

InitCluster ==
    /\ InitFunction
    /\ pc = "call"
    /\ rings = NoRings
    /\ \/ /\ G \in SmallGraphs(MaxInsNodes, MaxInsEdges)
          /\ parts \in find_communities(G)
       \/ \E n \in 4..MaxCommunity, m \in 1..MaxCommunity :
             /\ m <= n
             /\ G = PlainGraph(n, CycleEdges(n))
             /\ parts = Blocks(n, m)
       \/ \E k \in 0..Len(InsidePairs), x \in 0..Len(OutsidePairs) :
             /\ G = AddNodes(PlainGraph(4, SubSeq(InsidePairs, 1, k)
                                             \o SubSeq(OutsidePairs, 1, x)), 4)
             /\ parts = {{1, 2, 3}, {4}}
             /\ parts \in find_communities(G)

\* cluster_data = precompute_cluster_data(G), find_communities returning parts
CallPrecompute ==
    /\ pc = "call"
    /\ clusters' = [given |-> TRUE,
                    data |-> precompute_cluster_data(G, DEFAULT_THRESHOLD, parts)]
    /\ calls' = [calls EXCEPT !.find_communities = @ + 1]
    /\ pc' = "precomputed"
    /\ UNCHANGED <<vouches, G, rings, parts, users, weights, profile, results, out>>

\* score = calculate_cluster_score(G, p, precomputed_clusters=cluster_data)
CallClusterScore ==
    /\ pc = "precomputed"
    /\ \E p \in Nodes(G) :
          /\ profile' = p
          /\ out' = [fn |-> "calculate_cluster_score",
                     score |-> calculate_cluster_score(G, p, DEFAULT_THRESHOLD, clusters, parts)]
    /\ pc' = "returned"
    /\ UNCHANGED <<vouches, G, rings, parts, clusters, users, weights, results, calls>>

NextCluster == CallPrecompute \/ CallClusterScore

SpecCluster == InitCluster /\ [][NextCluster]_vars

CommunityOf(p) == CHOOSE c \in parts : p \in c
InternalCount(c) == Cardinality(InternalEdges(G, c))
TotalCount(c) == Cardinality(InternalEdges(G, c)) + Cardinality(ExternalEdges(G, c))

\* at least 3 members and internal / (internal + external) >= 0.7
Flagged(c) ==
    /\ Cardinality(c) >= 3
    /\ TotalCount(c) > 0
    /\ 10 * InternalCount(c) >= 7 * TotalCount(c)

\* min(100, insularity * 100 * (0.5 + 0.5 * min(1, 10 / size)))
ClaimClusterScore(c) ==
    LET size == Cardinality(c)
        full == <<100 * InternalCount(c), TotalCount(c)>>
        scaled == <<100 * InternalCount(c) * (size + 10), TotalCount(c) * 2 * size>>
    IN  RMin(Rat(100), IF size <= 10 THEN full ELSE scaled)

\* C7: precompute_cluster_data maps a profile to (insularity, size) of its
\* community exactly when the community has at least 3 members and
\* insularity >= 0.7, and calculate_cluster_score returns the size-scaled
\* score for a mapped profile and 0 for any other.
C7_ClusterMappingAndScore ==
    /\ pc \in {"precomputed", "returned"} =>
          \A p \in Nodes(G) :
             /\ (p \in DOMAIN clusters.data) <=> Flagged(CommunityOf(p))
             /\ p \in DOMAIN clusters.data =>
                   /\ REq(clusters.data[p][1],
                          <<InternalCount(CommunityOf(p)), TotalCount(CommunityOf(p))>>)
                   /\ clusters.data[p][2] = Cardinality(CommunityOf(p))
    /\ (pc = "returned" /\ out.fn = "calculate_cluster_score") =>
          REq(out.score, IF Flagged(CommunityOf(profile))
                         THEN ClaimClusterScore(CommunityOf(profile))
                         ELSE Rat(0))

\* a profile of a flagged community of more than 10 members has been scored
\* below insularity * 100, and the graph has a profile outside the mapping
C7_Witness ==
    /\ pc = "returned"
    /\ out.fn = "calculate_cluster_score"
    /\ Cardinality(CommunityOf(profile)) > 10
    /\ profile \in DOMAIN clusters.data
    /\ RLt(out.score, RMul(clusters.data[profile][1], Rat(100)))
    /\ RLt(Rat(0), out.score)
    /\ \E p \in Nodes(G) : p \notin DOMAIN clusters.data

-----------------------------------------------------------------------------
(* the weighted composite of calculate_risk_score as a function              *)

ScoreSteps == 2

\* subscores 0, ..., 100 in ScoreSteps equal steps
ScoreGrid == {Norm(<<100 * i, ScoreSteps>>) : i \in 0..ScoreSteps}

\* tests/test_scorer.py, test_custom_weights
CUSTOM_WEIGHTS ==
    [given |-> TRUE, ring |-> <<80, 100>>, cluster |-> <<5, 100>>, burst |-> <<5, 100>>,
     stake |-> <<5, 100>>, reciprocity |-> <<5, 100>>]

\* weights whose sum exceeds 1
HEAVY_WEIGHTS ==
    [given |-> TRUE, ring |-> <<1, 2>>, cluster |-> <<1, 2>>, burst |-> <<1, 2>>,
     stake |-> <<1, 2>>, reciprocity |-> <<0, 1>>]

InitComposite ==
    /\ vouches = <<>>
    /\ G = EmptyGraph
    /\ rings = NoRings
    /\ parts = {}
    /\ clusters = NoClusters
    /\ users = NoUsers
    /\ profile = 0
    /\ results = <<>>
    /\ calls = NoCalls
    /\ pc = "call"
    /\ weights \in {DEFAULT_WEIGHTS, CUSTOM_WEIGHTS, HEAVY_WEIGHTS}
    /\ out \in [AllDetectors -> ScoreGrid]

\* lines 119-139 for the detector results in out
CallRiskFromScores ==
    /\ pc = "call"
    /\ results' = <<RiskFromScores(weights, out["ring"], out["cluster"], out["burst"],
                                   out["stake"], out["reciprocity"])>>
    /\ pc' = "returned"
    /\ UNCHANGED <<vouches, G, rings, parts, clusters, users, weights, profile, out, calls>>

\* lines 119-139 again, one detector returning more than it did
RaiseSubscore ==
    /\ pc = "returned"
    /\ \E d \in AllDetectors, v \in ScoreGrid :
          /\ RLt(out[d], v)
          /\ out' = [out EXCEPT ![d] = v]
    /\ results' = <<RiskFromScores(weights, out'["ring"], out'["cluster"], out'["burst"],
                                   out'["stake"], out'["reciprocity"])>>
    /\ UNCHANGED <<pc, vouches, G, rings, parts, clusters, users, weights, profile, calls>>

NextComposite == CallRiskFromScores \/ RaiseSubscore

SpecComposite == InitComposite /\ [][NextComposite]_vars

\* the weights in force: the given ones, or 0.30/0.25/0.20/0.15/0.10
ClaimWeights ==
    IF weights.given THEN weights
    ELSE [ring |-> <<3, 10>>, cluster |-> <<1, 4>>, burst |-> <<1, 5>>,
          stake |-> <<3, 20>>, reciprocity |-> <<1, 10>>]

RECURSIVE WeightedSum(_, _)
WeightedSum(ds, s) ==
    IF ds = {} THEN Rat(0)
    ELSE LET d == CHOOSE x \in ds : TRUE
         IN  RAdd(RMul(ClaimWeights[d], s[d]), WeightedSum(ds \ {d}, s))

CompositeAsClaimed ==
    pc = "returned" =>
        /\ REq(results[1].composite_score, RMin(Rat(100), WeightedSum(AllDetectors, out)))
        /\ RLe(Rat(0), results[1].composite_score)
        /\ RLe(results[1].composite_score, Rat(100))
        /\ results[1].ring_score = out["ring"]
        /\ results[1].cluster_score = out["cluster"]
        /\ results[1].burst_score = out["burst"]
        /\ results[1].stake_score = out["stake"]
        /\ results[1].reciprocity_score = out["reciprocity"]
        /\ ~weights.given =>
              REq(WeightedSum(AllDetectors, [d \in AllDetectors |-> Rat(1)]), Rat(1))

CompositeMonotone ==
    (pc = "returned" /\ pc' = "returned") =>
        RLe(results[1].composite_score, results'[1].composite_score)

\* C8: the composite is min(100, sum of weight * subscore) (default weights
\* 0.30/0.25/0.20/0.15/0.10, summing to 1), lies in [0, 100], and does not
\* decrease when one subscore is raised.
C8_CompositeFormulaMonotone == [](CompositeAsClaimed) /\ [][CompositeMonotone]_vars

\* a composite clamped to 100 under weights summing to more than 1
C8_Witness ==
    /\ pc = "returned"
    /\ weights = HEAVY_WEIGHTS
    /\ REq(results[1].composite_score, Rat(100))
    /\ RLt(Rat(100), WeightedSum(AllDetectors, out))

-----------------------------------------------------------------------------
(* The pipeline run twice on the same records                               *)

\* build_vouch_graph, lines 33-85: the loop over the records
RECURSIVE BuildLoop(_, _)
BuildLoop(g, vs) ==
    IF vs = <<>> THEN [ok |-> TRUE, g |-> g]
    ELSE LET r == BuildStep(g, Head(vs))
         IN  IF ~r.ok THEN r ELSE BuildLoop(r.g, Tail(vs))

build_vouch_graph(vs) == BuildLoop(EmptyGraph, vs)

\* build_vouch_graph, one record of the loop, every record with balance 0
AddPlainVouch ==
    /\ pc = "build"
    /\ calls.find_rings = 0
    /\ Len(vouches) < MaxVouches
    /\ \E a \in NewProfileIds(G), s \in NodeIds :
          /\ s <= (IF a > Len(G.nodes) THEN a ELSE Len(G.nodes)) + 1
          /\ vouches' = Append(vouches, Vouch(a, s, 0, users))
          /\ G' = BuildStep(G, Vouch(a, s, 0, users)).g
    /\ UNCHANGED <<pc, rings, parts, clusters, users, weights, profile, results, out, calls>>

\* line 160 in a run that redraws the partition although the seed is the same
SeededClusters_Unseeded ==
    /\ pc = "clusters"
    /\ \E communities \in find_communities(G) :
          /\ parts' = communities
          /\ clusters' = [given |-> TRUE,
                          data |-> precompute_cluster_data(G, DEFAULT_THRESHOLD, communities)]
    /\ calls' = [calls EXCEPT !.find_communities = @ + 1]
    /\ profile' = 1
    /\ results' = SortResults(<<>>)
    /\ pc' = IF Len(G.nodes) = 0 THEN "done" ELSE "score"
    /\ UNCHANGED <<vouches, G, rings, users, weights, out>>

\* line 160 with the random seed of louvain_communities held fixed: the first
\* run gets one of the partitions find_communities may return (parts), a
\* later run on the same adjacency gets the same one
SeededClusters ==
    /\ pc = "clusters"
    /\ \E communities \in (IF calls.find_communities = 0 THEN find_communities(G) ELSE {parts}) :
          /\ parts' = communities
          /\ clusters' = [given |-> TRUE,
                          data |-> precompute_cluster_data(G, DEFAULT_THRESHOLD, communities)]
    /\ calls' = [calls EXCEPT !.find_communities = @ + 1]
    /\ profile' = 1
    /\ results' = SortResults(<<>>)
    /\ pc' = IF Len(G.nodes) = 0 THEN "done" ELSE "score"
    /\ UNCHANGED <<vouches, G, rings, users, weights, out>>

\* the pipeline starts again on the records of the first run, whose results
\* are kept in out
Rerun ==
    /\ pc = "done"
    /\ calls.find_rings = 1
    /\ out' = [fn |-> "analyze_all_profiles", results |-> results, clusters |-> clusters]
    /\ G' = build_vouch_graph(vouches).g
    /\ rings' = NoRings
    /\ clusters' = NoClusters
    /\ results' = <<>>
    /\ profile' = 0
    /\ pc' = "build"
    /\ UNCHANGED <<vouches, parts, users, weights, calls>>

NextRerun ==
    \/ AddPlainVouch
    \/ GetRingStats
    \/ SeededClusters
    \/ ScoreProfile
    \/ Rerun

SpecRerun == Init /\ [][NextRerun]_vars

-----------------------------------------------------------------------------
(* Properties of build_vouch_graph in the pipeline                          *)

RecordPair(v) == <<v.authorProfileId, v.subjectProfileId>>
RecordsOf(e) == {i \in 1..Len(vouches) : RecordPair(vouches[i]) = e}

EdgesMatchRecords ==
    /\ Edges(G) = {RecordPair(vouches[i]) : i \in 1..Len(vouches)}
    /\ \A e \in Edges(G) :
          /\ G.edge[e].count = Cardinality(RecordsOf(e))
          /\ G.edge[e].weight[1] * WEI_PER_ETH
                = G.edge[e].weight[2]
                     * SumOver([i \in RecordsOf(e) |-> vouches[i].balance], RecordsOf(e))

WeightsNeverDecrease ==
    \A e \in Edges(G) : e \in Edges(G') /\ RLe(G.edge[e].weight, G'.edge[e].weight)

\* C12: the graph has exactly the edges of the (giver, receiver) pairs of the
\* records, each with the summed balance as weight and the number of its
\* records as count, and no step makes an edge's weight smaller.
C12_EdgesAccumulate == [](EdgesMatchRecords) /\ [][WeightsNeverDecrease]_vars

\* three records: two of the same pair, 0.5 ETH each, and one of another pair
C12_Witness ==
    /\ Len(vouches) = 3
    /\ Cardinality(Edges(G)) = 2
    /\ \E e \in Edges(G) : G.edge[e].count = 2 /\ REq(G.edge[e].weight, Rat(1))

-----------------------------------------------------------------------------
(* build_vouch_graph and ring scoring on records that carry timestamps      *)

MaxStamped == 3

Num(d) == [kind |-> "num", val |-> d]
Iso(d) == [kind |-> "iso", val |-> d]
IsoZ(d) == [kind |-> "isoZ", val |-> d]
Bad == [kind |-> "bad", val |-> 0]

\* activityCheckpoints of a record written on day d, as <<vouchedAt, vouched>>:
\* nothing, an epoch number, an ISO string without and with offset, a string
\* that is no date, and a vouchedAt of 0 next to an ISO string with offset
Checkpoints(d) ==
    {<<RawNone, RawNone>>, <<Num(d), RawNone>>, <<RawNone, Iso(d)>>,
     <<RawNone, IsoZ(d)>>, <<RawNone, Bad>>, <<Num(0), IsoZ(d)>>}

StampedVouch(a, s, cp) ==
    [Vouch(a, s, 500, NoUsers) EXCEPT !.vouchedAt = cp[1], !.vouched = cp[2]]

\* the records run around the cycle 1 -> 2 -> ... -> MaxNode -> 1
CyclePairs == {<<i, (i % MaxNode) + 1>> : i \in NodeIds}

InitStamped ==
    /\ InitFunction
    /\ parts = {}
    /\ rings = NoRings
    /\ G = EmptyGraph
    /\ pc = "build"

\* build_vouch_graph, one record of the loop
AddStampedVouch ==
    /\ pc = "build"
    /\ Len(vouches) < MaxStamped
    /\ \E e \in CyclePairs, cp \in Checkpoints(Len(vouches) + 1) :
          \E r \in {BuildStep(G, StampedVouch(e[1], e[2], cp))} :
             /\ vouches' = Append(vouches, StampedVouch(e[1], e[2], cp))
             /\ G' = r.g
             /\ pc' = IF r.ok THEN "build" ELSE "raised"
    /\ UNCHANGED <<rings, parts, clusters, users, weights, profile, results, out, calls>>

\* calculate_ring_score(G, profile_id) for the first profile of the graph
ScoreRings ==
    /\ pc = "build"
    /\ Len(G.nodes) > 0
    /\ \E r \in {calculate_ring_score(G, G.nodes[1], 5, NoRings, NoTimeout(G))} :
          /\ out' = r
          /\ pc' = IF r.ok THEN "returned" ELSE "raised"
    /\ profile' = G.nodes[1]
    /\ calls' = [calls EXCEPT !.find_rings = @ + 1]
    /\ UNCHANGED <<vouches, G, rings, parts, clusters, users, weights, results>>

NextStamped == AddStampedVouch \/ ScoreRings

SpecStamped == InitStamped /\ [][NextStamped]_vars

\* the value the record's checkpoints offer, and whether it is a date at all
OfferedStamp(v) == IF Truthy(v.vouchedAt) THEN v.vouchedAt ELSE v.vouched
Unresolvable(v) == OfferedStamp(v).kind \in {"none", "bad"} \/ OfferedStamp(v) = Num(0)

\* C13: whatever forms the timestamps of the records take, neither
\* build_vouch_graph nor the ring scoring raises, and an edge whose records
\* all have an unresolvable timestamp has no timestamp.
C13_TimestampsTolerated ==
    /\ pc # "raised"
    /\ \A e \in Edges(G) :
          (\A i \in RecordsOf(e) : Unresolvable(vouches[i])) => ~HasTs(G.edge[e].timestamp)

-----------------------------------------------------------------------------
(* build_vouch_graph on records that lack keys                              *)

MaxRawIds == 2
MaxRaw == 2

\* A raw record is a dict: a function on the keys it has
RawKeys == {"authorProfileId", "subjectProfileId", "balance", "activityCheckpoints"}
FullRecords ==
    {[authorProfileId |-> a, subjectProfileId |-> s, balance |-> 500,
      activityCheckpoints |-> <<RawNone, Iso(1)>>] : a, s \in 1..MaxRawIds}
RawRecords == {[k \in K |-> f[k]] : f \in FullRecords, K \in SUBSET RawKeys}

LacksId(rec) ==
    "authorProfileId" \notin DOMAIN rec \/ "subjectProfileId" \notin DOMAIN rec

\* lines 38-45: vouch.get("balance", "0") and the checkpoints if there are any
Defaults(rec) ==
    [authorProfileId |-> rec.authorProfileId,
     subjectProfileId |-> rec.subjectProfileId,
     balance |-> IF "balance" \in DOMAIN rec THEN rec.balance ELSE 0,
     vouchedAt |-> IF "activityCheckpoints" \in DOMAIN rec
                   THEN rec.activityCheckpoints[1] ELSE RawNone,
     vouched |-> IF "activityCheckpoints" \in DOMAIN rec
                 THEN rec.activityCheckpoints[2] ELSE RawNone,
     createdAt |-> RawNone, timestamp |-> RawNone,
     authorUser |-> NoUser, subjectUser |-> NoUser]

\* BuildRecord reading the identifiers with .get() and passing over a record
\* that lacks one
BuildRecord_Lenient(g, rec) ==
    IF LacksId(rec) THEN [ok |-> TRUE, g |-> g] ELSE BuildStep(g, Defaults(rec))

\* lines 36-37: vouch["authorProfileId"], vouch["subjectProfileId"] raise
\* KeyError when the key is missing
BuildRecord(g, rec) ==
    IF LacksId(rec) THEN [ok |-> FALSE, g |-> g] ELSE BuildStep(g, Defaults(rec))

RECURSIVE BuildRecords(_, _)
BuildRecords(g, recs) ==
    IF recs = <<>> THEN [ok |-> TRUE, g |-> g]
    ELSE LET r == BuildRecord(g, Head(recs))
         IN  IF ~r.ok THEN r ELSE BuildRecords(r.g, Tail(recs))

NoOutput == [fn |-> "<none>"]

InitRaw ==
    /\ pc = "call"
    /\ vouches \in UNION {[1..n -> RawRecords] : n \in 0..MaxRaw}
    /\ G = EmptyGraph
    /\ rings = NoRings
    /\ parts = {}
    /\ clusters = NoClusters
    /\ users = NoUsers
    /\ weights = DEFAULT_WEIGHTS
    /\ profile = 0
    /\ results = <<>>
    /\ out = NoOutput
    /\ calls = NoCalls

\* G = build_vouch_graph(vouches)
CallBuildVouchGraph ==
    /\ pc = "call"
    /\ \E r \in {BuildRecords(EmptyGraph, vouches)} :
          IF r.ok
          THEN /\ G' = r.g
               /\ out' = [fn |-> "build_vouch_graph", G |-> r.g]
               /\ pc' = "returned"
          ELSE /\ UNCHANGED <<G, out>>
               /\ pc' = "raised"
    /\ UNCHANGED <<vouches, rings, parts, clusters, users, weights, profile, results, calls>>

NextRaw == CallBuildVouchGraph

SpecRaw == InitRaw /\ [][NextRaw]_vars

\* C14: build_vouch_graph raises and returns no graph exactly when some record
\* lacks authorProfileId or subjectProfileId; records that lack a balance or
\* the checkpoints are built into the graph.
C14_MissingIdFails ==
    pc # "call" =>
       /\ (pc = "raised") <=> (\E i \in 1..Len(vouches) : LacksId(vouches[i]))
       /\ pc = "raised" => out = NoOutput
       /\ pc = "returned" =>
             /\ out.G = G
             /\ Edges(G) = {<<vouches[i].authorProfileId, vouches[i].subjectProfileId>> :
                               i \in 1..Len(vouches)}

\* a complete first record, then a record without subjectProfileId
C14_Witness ==
    /\ pc = "raised"
    /\ Len(vouches) = 2
    /\ DOMAIN vouches[1] = RawKeys
    /\ DOMAIN vouches[2] = RawKeys \ {"subjectProfileId"}

\* two records with both identifiers, one without balance, one without checkpoints
C14_WitnessSparse ==
    /\ pc = "returned"
    /\ Len(vouches) = 2
    /\ DOMAIN vouches[1] = RawKeys \ {"balance"}
    /\ DOMAIN vouches[2] = RawKeys \ {"activityCheckpoints"}

-----------------------------------------------------------------------------
(* The detectors on degenerate data                                         *)

MaxHub == 3
MaxWindows == 4
MaxPerWindow == 4

\* the weight of every edge of a hub graph: 0, 0.005 or 0.5 ETH
HubWeights == {<<0, 1>>, <<1, 200>>, <<1, 2>>}

\* the edges 2 -> 1, ..., k + 1 -> 1, each of weight w, on the nodes
\* 1..(k + 2): node k + 2 has no edge (and neither has any node for k = 0)
HubEdges(k) == [i \in 1..k |-> <<i + 1, 1>>]
HubGraph(k, w) ==
    AddNodes(add_edges_from(EmptyGraphOn(1..(k + 2)), HubEdges(k),
                            [i \in 1..k |->
                                [weight |-> w, count |-> 1, timestamp |-> NoTs]]),
             k + 2)

\* nw week windows of c records each, all received by profile 1 from profile 2
DatedVouch(a, s, day) == [Vouch(a, s, 500, NoUsers) EXCEPT !.createdAt = Iso(day)]
EvenRecords(nw, c) ==
    [i \in 1..(nw * c) |-> DatedVouch(2, 1, DAYS_PER_WEEK * (((i - 1) % nw) + 1))]

InitDegenerate ==
    /\ pc = "call"
    /\ G \in {EmptyGraph} \cup {HubGraph(k, w) : k \in 0..MaxHub, w \in HubWeights}
    /\ vouches \in {EvenRecords(nw, c) : nw \in 1..MaxWindows, c \in 0..MaxPerWindow}
    /\ rings = NoRings
    /\ parts = {}
    /\ clusters = NoClusters
    /\ users = NoUsers
    /\ weights = DEFAULT_WEIGHTS
    /\ profile = 0
    /\ results = <<>>
    /\ out = NoOutput
    /\ calls = NoCalls

Returned(fn, p, value) ==
    /\ pc' = "returned"
    /\ profile' = p
    /\ out' = [fn |-> fn, value |-> value]
    /\ UNCHANGED <<vouches, G, rings, parts, clusters, users, weights, results, calls>>

CallReciprocityRatio ==
    /\ pc = "call"
    /\ \E p \in Nodes(G) :
          Returned("calculate_reciprocity_ratio", p, calculate_reciprocity_ratio(G, p))

CallStakeScore ==
    /\ pc = "call"
    /\ \E p \in Nodes(G) : Returned("calculate_stake_score", p, calculate_stake_score(G, p))

CallDetectBurst ==
    /\ pc = "call"
    /\ \E p \in Nodes(G) :
          Returned("detect_vouch_burst", p, detect_vouch_burst(vouches, p, STD_THRESHOLD))

CallFindCommunities ==
    /\ pc = "call"
    /\ \E communities \in find_communities(G) :
          Returned("find_communities", profile, communities)

\* calculate_risk_score(G, p, vouches) as the tests call it, without
\* precomputed rings or clusters
CallRiskScore ==
    /\ pc = "call"
    /\ \E p \in Nodes(G), communities \in find_communities(G) :
          Returned("calculate_risk_score", p,
                   calculate_risk_score(G, p, vouches, weights, NoRings, NoClusters,
                                        communities, NoTimeout(G)))

NextDegenerate ==
    \/ CallReciprocityRatio
    \/ CallStakeScore
    \/ CallDetectBurst
    \/ CallFindCommunities
    \/ CallRiskScore

SpecDegenerate == InitDegenerate /\ [][NextDegenerate]_vars

NoEdgesAt(p) == in_degree(G, p) = 0 /\ out_degree(G, p) = 0
NoRecordsOf(p) == \A i \in 1..Len(vouches) :
                     vouches[i].subjectProfileId # p /\ vouches[i].authorProfileId # p
WindowCountsEqual(p) ==
    LET windows == group_by_window(get_vouches_for_profile(vouches, p))
    IN  \A j, k \in DOMAIN windows : windows[j] = windows[k]
IsScore(x) == x[2] > 0 /\ RLe(Rat(0), x) /\ RLe(x, Rat(100))

\* C15: on degenerate data every detector returns its neutral value: ratio 1
\* at in-degree 0; stake score 0 below 3 incoming edges and a score in 0..100
\* when the graph's weights are all 0; no burst when every window holds the
\* same count; no community for the empty graph; and all subscores 0,
\* composite 0, level "minimal" for a profile without edges and records.
C15_DegenerateNeutral ==
    pc = "returned" =>
       /\ (out.fn = "calculate_reciprocity_ratio" /\ in_degree(G, profile) = 0)
             => out.value = Rat(1)
       /\ out.fn = "calculate_stake_score"
             => /\ IsScore(out.value)
                /\ in_degree(G, profile) < 3 => out.value = Rat(0)
       /\ (out.fn = "detect_vouch_burst" /\ WindowCountsEqual(profile))
             => out.value = <<FALSE, 0>>
       /\ (out.fn = "find_communities" /\ Len(G.nodes) = 0) => out.value = {}
       /\ (out.fn = "calculate_risk_score" /\ NoEdgesAt(profile) /\ NoRecordsOf(profile))
             => /\ out.value.ok
                /\ out.value.breakdown
                      = Breakdown(Rat(0), Rat(0), Rat(0), Rat(0), Rat(0), Rat(0), "minimal")

\* the profile without edges of a graph whose other edges all weigh 0, next
\* to twelve records of another profile
C15_Witness ==
    /\ pc = "returned"
    /\ out.fn = "calculate_risk_score"
    /\ NoEdgesAt(profile) /\ NoRecordsOf(profile)
    /\ Cardinality(Edges(G)) = 3
    /\ \A e \in Edges(G) : G.edge[e].weight = <<0, 1>>
    /\ Len(vouches) = 12

-----------------------------------------------------------------------------
(* detect_vouch_burst and calculate_burst_score on dated records            *)

MaxBaseWindows == 11
MaxBursts == 2

\* records per baseline window, records per burst window, records without a
\* date, and the values of std_threshold
BaseRates == {1, 2}
BurstSizes == {2, 3, 9, 10, 19, 20, 29, 30, 49, 50}
Undated == {0, 3}
Thresholds == {2, STD_THRESHOLD}

\* The records profile 1 received: nb baseline weeks of b records each, then
\* kb weeks of c records each, then u records whose createdAt is no date
BurstRecords(nb, b, kb, c, u) ==
    [i \in 1..(nb * b + kb * c + u) |->
        IF i <= nb * b
        THEN DatedVouch(2, 1, DAYS_PER_WEEK * (((i - 1) \div b) + 1) + ((i - 1) % b))
        ELSE IF i <= nb * b + kb * c
        THEN DatedVouch(2, 1, DAYS_PER_WEEK * (nb + 1 + ((i - nb * b - 1) \div c)))
        ELSE [Vouch(2, 1, 500, NoUsers) EXCEPT !.createdAt = Bad]]

InitBurst ==
    /\ pc = "call"
    /\ \E nb \in 0..MaxBaseWindows, b \in BaseRates, kb \in 0..MaxBursts,
          c \in BurstSizes, u \in Undated :
          vouches = BurstRecords(nb, b, kb, c, u)
    /\ G = EmptyGraph
    /\ rings = NoRings
    /\ parts = {}
    /\ clusters = NoClusters
    /\ users = NoUsers
    /\ weights = DEFAULT_WEIGHTS
    /\ profile = 1
    /\ results = <<>>
    /\ out = NoOutput
    /\ calls = NoCalls

\* has_burst, burst_size = detect_vouch_burst(vouches, profile_id, std_threshold=t)
CallDetectVouchBurst ==
    /\ pc = "call"
    /\ \E t \in Thresholds :
          \E r \in detect_vouch_burst_outcomes(vouches, profile, t) :
             out' = [fn |-> "detect_vouch_burst", std_threshold |-> t, value |-> r]
    /\ pc' = "returned"
    /\ UNCHANGED <<vouches, G, rings, parts, clusters, users, weights, profile, results, calls>>

\* score = calculate_burst_score(vouches, profile_id)
CallBurstScore ==
    /\ pc = "call"
    /\ \E x \in calculate_burst_score_outcomes(vouches, profile) :
          out' = [fn |-> "calculate_burst_score", std_threshold |-> STD_THRESHOLD,
                  value |-> x]
    /\ pc' = "returned"
    /\ UNCHANGED <<vouches, G, rings, parts, clusters, users, weights, profile, results, calls>>

NextBurst == CallDetectVouchBurst \/ CallBurstScore

SpecBurst == InitBurst /\ [][NextBurst]_vars

\* what the records say: how many the profile received, and the week windows
\* of those that carry a date
Received == get_vouches_for_profile(vouches, profile)
WeekCounts == group_by_window(Received)
TooFewRecords == Len(Received) < 10
TooFewWindows == Cardinality(DOMAIN WeekCounts) < 3
UniformWindows == \A j, k \in DOMAIN WeekCounts : WeekCounts[j] = WeekCounts[k]

\* C16: below 10 received records, below 3 week windows, or with the same
\* count in every window, detect_vouch_burst flags nothing and
\* calculate_burst_score is 0.
C16_BurstGuards ==
    (pc = "returned" /\ (TooFewRecords \/ TooFewWindows \/ UniformWindows)) =>
       /\ out.fn = "detect_vouch_burst" => ~out.value[1]
       /\ out.fn = "calculate_burst_score" => out.value = Rat(0)

\* seven records in six windows with one window standing out, threshold 2.0
C16_Witness ==
    /\ pc = "returned"
    /\ out.fn = "detect_vouch_burst"
    /\ out.std_threshold = 2
    /\ Len(Received) = 7
    /\ Cardinality(DOMAIN WeekCounts) = 6
    /\ ~UniformWindows

\* max(counts) > mean(counts) + t * std(counts) with the population standard
\* deviation, in integers: for n windows of sum S and sum of squares Q,
\* n * max - S > t * sqrt(n * Q - S^2)
LargestWindow == CHOOSE c \in {WeekCounts[k] : k \in DOMAIN WeekCounts} :
                    \A k \in DOMAIN WeekCounts : WeekCounts[k] <= c
ExceedsThreshold(t) ==
    LET n == Cardinality(DOMAIN WeekCounts)
        S == SumOver(WeekCounts, DOMAIN WeekCounts)
        Q == SumOver([k \in DOMAIN WeekCounts |-> WeekCounts[k] * WeekCounts[k]],
                     DOMAIN WeekCounts)
        d == n * LargestWindow - S
    IN  d > 0 /\ d * d > t * t * (n * Q - S * S)

ClaimBurstScore(flagged, largest) ==
    IF ~flagged THEN 0
    ELSE IF largest >= 50 THEN 100
    ELSE IF largest >= 30 THEN 80
    ELSE IF largest >= 20 THEN 60
    ELSE IF largest >= 10 THEN 40
    ELSE 20

\* C17: past the guards a burst is flagged exactly when the largest window
\* count exceeds mean + std_threshold * stddev of the window counts, and the
\* score is 100/80/60/40 for a largest window of at least 50/30/20/10, 20 for
\* a smaller flagged one and 0 without a flag.
C17_BurstRule ==
    (pc = "returned" /\ ~TooFewRecords /\ ~TooFewWindows /\ ~UniformWindows) =>
       /\ out.fn = "detect_vouch_burst"
             => (out.value[1] <=> ExceedsThreshold(out.std_threshold))
       /\ out.fn = "calculate_burst_score"
             => out.value = Rat(ClaimBurstScore(ExceedsThreshold(STD_THRESHOLD),
                                                LargestWindow))

-----------------------------------------------------------------------------
(* calculate_stake_score on graphs of tiny and regular stakes               *)

MaxTiny == 10
MaxRegular == 3
MaxOther == 4

\* balances in model wei: 0 and 0.001 ETH (tiny), 0.01, 0.05 and 0.5 ETH
\* (regular), 0, 0.5 and 2 ETH (the edges that do not enter the profile)
TinyBalances == {0, 1}
RegularBalances == {10, 50, 500}
OtherBalances == {0, 500, 2000}

\* Profile 1 receives t edges of balance wt and h edges of balance wh and
\* gives m edges of balance wo
StakeEdges(t, h, m) ==
    [i \in 1..(t + h + m) |-> IF i <= t + h THEN <<i + 1, 1>> ELSE <<1, i + 1>>]
StakeGraph(t, wt, h, wh, m, wo) ==
    add_edges_from(EmptyGraphOn(1..(t + h + m + 1)), StakeEdges(t, h, m),
                   [i \in 1..(t + h + m) |->
                       [weight |-> wei_to_eth(IF i <= t THEN wt
                                              ELSE IF i <= t + h THEN wh ELSE wo),
                        count |-> 1, timestamp |-> NoTs]])

InitStake ==
    /\ pc = "call"
    /\ \E t \in 0..MaxTiny, h \in 0..MaxRegular, m \in 0..MaxOther,
          wt \in TinyBalances, wh \in RegularBalances, wo \in OtherBalances :
          G = StakeGraph(t, wt, h, wh, m, wo)
    /\ vouches = <<>>
    /\ rings = NoRings
    /\ parts = {}
    /\ clusters = NoClusters
    /\ users = NoUsers
    /\ weights = DEFAULT_WEIGHTS
    /\ profile = 0
    /\ results = <<>>
    /\ out = NoOutput
    /\ calls = NoCalls

\* score = calculate_stake_score(G, profile_id) for the receiving profile or
\* one of the others
CallStakeScoreOf ==
    /\ pc = "call"
    /\ \E p \in {n \in Nodes(G) : n <= 2} :
          Returned("calculate_stake_score", p, calculate_stake_score(G, p))

NextStake == CallStakeScoreOf

SpecStake == InitStake /\ [][NextStake]_vars

\* the claim's quantities in model wei: incoming edges, their sum, all edges,
\* their sum, and the incoming edges below 0.01 ETH
Wei(e) == G.edge[e].weight[1]
Incoming == {e \in Edges(G) : e[2] = profile}
IncomingSum == SumOver([e \in Incoming |-> Wei(e)], Incoming)
NetworkSum == SumOver([e \in Edges(G) |-> Wei(e)], Edges(G))
TinyIncoming == {e \in Incoming : Wei(e) * 100 < WEI_PER_ETH}

\* mean incoming weight below p/q of the network mean
MeanBelow(p, q) ==
    IncomingSum * Cardinality(Edges(G)) * q < p * NetworkSum * Cardinality(Incoming)
\* fraction of tiny incoming edges above p/q
TinyAbove(p, q) == Cardinality(TinyIncoming) * q > p * Cardinality(Incoming)

ClaimA == IF MeanBelow(1, 10) THEN 50
          ELSE IF MeanBelow(3, 10) THEN 30
          ELSE IF MeanBelow(5, 10) THEN 15 ELSE 0
ClaimB == IF TinyAbove(8, 10) THEN 50
          ELSE IF TinyAbove(5, 10) THEN 30
          ELSE IF TinyAbove(3, 10) THEN 15 ELSE 0
ClaimStakeScore ==
    IF Cardinality(Incoming) < 3 THEN 0
    ELSE IF ClaimA + ClaimB > 100 THEN 100 ELSE ClaimA + ClaimB

-----------------------------------------------------------------------------
(* calculate_reciprocity_ratio and calculate_reciprocity_score              *)

MaxReceived == 26
MaxGiven == 52

\* Profile 1 receives an edge from each of the profiles 2..r + 1 and gives one
\* to each of the profiles 2..g + 1 (the edges carry no weight, as in the
\* tests); the last profile is added with G.add_node and has no edge
ReciprocityGraph(r, g) ==
    LET last == (IF r > g THEN r ELSE g) + 2
        edges == {<<i, 1>> : i \in 2..(r + 1)} \cup {<<1, i>> : i \in 2..(g + 1)}
    IN  [nodes |-> [i \in 1..last |-> IF r > 0 /\ i <= 2 THEN 3 - i ELSE i],
         succ  |-> [n \in 1..last |-> IF n = 1 THEN [i \in 1..g |-> i + 1]
                                      ELSE IF n <= r + 1 THEN <<1>> ELSE <<>>],
         edge  |-> [e \in edges |-> [weight |-> NoWeight, count |-> 1, timestamp |-> NoTs]],
         user  |-> [n \in 1..last |-> NoUser]]

InitReciprocity ==
    /\ pc = "call"
    /\ \E r \in 0..MaxReceived, g \in 0..MaxGiven :
          r + g > 0 /\ G = ReciprocityGraph(r, g)
    /\ vouches = <<>>
    /\ rings = NoRings
    /\ parts = {}
    /\ clusters = NoClusters
    /\ users = NoUsers
    /\ weights = DEFAULT_WEIGHTS
    /\ profile = 0
    /\ results = <<>>
    /\ out = NoOutput
    /\ calls = NoCalls

\* ratio = calculate_reciprocity_ratio(G, profile_id) for profile 1, profile 2
\* or the profile without edges
CallRatioOf ==
    /\ pc = "call"
    /\ \E p \in {1, 2, Len(G.nodes)} :
          Returned("calculate_reciprocity_ratio", p, calculate_reciprocity_ratio(G, p))

\* score = calculate_reciprocity_score(G, profile_id) for the same profiles
CallReciprocityScoreOf ==
    /\ pc = "call"
    /\ \E p \in {1, 2, Len(G.nodes)} :
          Returned("calculate_reciprocity_score", p, calculate_reciprocity_score(G, p))

NextReciprocity == CallRatioOf \/ CallReciprocityScoreOf

SpecReciprocity == InitReciprocity /\ [][NextReciprocity]_vars

\* the degrees of the profile, counted on the edges
InDegree == Cardinality({e \in Edges(G) : e[2] = profile})
OutDegree == Cardinality({e \in Edges(G) : e[1] = profile})

\* C19: the ratio is 1.0 when out-degree and in-degree are equal or the
\* in-degree is 0, 0.0 when the out-degree is 0 and the in-degree is not, and
\* out-degree / in-degree otherwise.
C19_ReciprocityRatio ==
    (pc = "returned" /\ out.fn = "calculate_reciprocity_ratio") =>
       /\ out.value[2] # 0
       /\ (OutDegree = InDegree \/ InDegree = 0) => REq(out.value, Rat(1))
       /\ (OutDegree = 0 /\ InDegree > 0) => REq(out.value, Rat(0))
       /\ InDegree > 0 => REq(out.value, <<OutDegree, InDegree>>)

\* ten received, eight given: 0.8
C19_Witness ==
    /\ pc = "returned"
    /\ out.fn = "calculate_reciprocity_ratio"
    /\ InDegree = 10 /\ OutDegree = 8
    /\ REq(out.value, <<4, 5>>)

ClaimReciprocityScore ==
    IF InDegree < 5 THEN 0
    ELSE IF OutDegree * 20 < InDegree /\ InDegree > 20 THEN 80
    ELSE IF OutDegree * 10 < InDegree /\ InDegree > 10 THEN 60
    ELSE IF OutDegree * 5 < InDegree THEN 40
    ELSE IF OutDegree > 10 * InDegree THEN 20
    ELSE 0

-----------------------------------------------------------------------------
(* get_risk_level                                                           *)

LevelSteps == 4

InitRiskLevel ==
    /\ pc = "call"
    /\ G = EmptyGraph
    /\ vouches = <<>>
    /\ rings = NoRings
    /\ parts = {}
    /\ clusters = NoClusters
    /\ users = NoUsers
    /\ weights = DEFAULT_WEIGHTS
    /\ profile = 0
    /\ results = <<>>
    /\ out = NoOutput
    /\ calls = NoCalls

\* level = get_risk_level(score) for a score n / LevelSteps in [0, 100]
CallGetRiskLevel ==
    /\ pc = "call"
    /\ \E n \in 0..(100 * LevelSteps) :
          out' = [fn |-> "get_risk_level", score |-> <<n, LevelSteps>>,
                  value |-> get_risk_level(<<n, LevelSteps>>)]
    /\ pc' = "returned"
    /\ UNCHANGED <<vouches, G, rings, parts, clusters, users, weights, profile, results, calls>>

NextRiskLevel == CallGetRiskLevel

SpecRiskLevel == InitRiskLevel /\ [][NextRiskLevel]_vars

\* the level of the claim for the score num / den
ClaimLevel(num, den) ==
    CASE num >= 70 * den -> "critical"
      [] num >= 50 * den /\ num < 70 * den -> "high"
      [] num >= 30 * den /\ num < 50 * den -> "medium"
      [] num >= 10 * den /\ num < 30 * den -> "low"
      [] num < 10 * den -> "minimal"

\* C21: get_risk_level is "critical" from 70, "high" from 50, "medium" from
\* 30, "low" from 10 and "minimal" below; each boundary belongs to the
\* higher level.
C21_RiskLevels ==
    (pc = "returned" /\ out.fn = "get_risk_level") =>
       out.value = ClaimLevel(out.score[1], out.score[2])

\* the boundary 10.0 is "low"
C21_Witness ==
    /\ pc = "returned"
    /\ out.fn = "get_risk_level"
    /\ REq(out.score, Rat(10))
    /\ out.value = "low"

-----------------------------------------------------------------------------
(* find_rings as a function: dense graphs, self-loops, both limits          *)

MaxSearchNodes == 4
MaxChords == 2

\* the cycle 1 -> 2 -> ... -> n -> 1
Backbone(n) == {<<i, (i % n) + 1>> : i \in 1..n}

\* the cycle on 1..n with the extra edges `chosen` (chords, back edges and
\* self-loops), and the complete graph with every self-loop
DenseGraph(n, chosen) ==
    PlainGraph(n, SelectSeq(AllPairs(n), LAMBDA q : q \in Backbone(n) \cup chosen))

\* (max_length, max_rings, budget): no limit for every max_length, then each
\* limit alone and both together
SearchParams(g) ==
    {<<l, DEFAULT_MAX_RINGS, NoTimeout(g)>> : l \in 3..5}
        \cup {<<5, m, NoTimeout(g)>> : m \in 1..2}
        \cup {<<5, DEFAULT_MAX_RINGS, b>> : b \in 0..2}
        \cup {<<5, 2, 1>>}

InitSearch ==
    /\ pc = "call"
    /\ vouches = <<>>
    /\ rings = NoRings
    /\ parts = {}
    /\ clusters = NoClusters
    /\ users = NoUsers
    /\ weights = DEFAULT_WEIGHTS
    /\ profile = 0
    /\ results = <<>>
    /\ out = NoOutput
    /\ calls = NoCalls
    /\ \E n \in 3..MaxSearchNodes :
          \/ \E chosen \in SUBSET (Range(AllPairs(n)) \ Backbone(n)) :
                /\ Cardinality(chosen) <= MaxChords
                /\ G = DenseGraph(n, chosen)
          \/ G = DenseGraph(n, Range(AllPairs(n)))

\* rings = find_rings(G, max_length, max_rings, timeout_sec)
CallSearch ==
    /\ pc = "call"
    /\ \E q \in SearchParams(G) :
          out' = [fn |-> "find_rings", max_length |-> q[1], max_rings |-> q[2],
                  budget |-> q[3], rings |-> find_rings(G, q[1], q[2], q[3])]
    /\ calls' = [calls EXCEPT !.find_rings = @ + 1]
    /\ pc' = "returned"
    /\ UNCHANGED <<vouches, G, rings, parts, clusters, users, weights, profile, results>>

NextSearch == CallSearch

SpecSearch == InitSearch /\ [][NextSearch]_vars

\* the nodes of S can be ordered into a directed cycle of g
OrderedCycle(g, S) ==
    \E p \in [1..Cardinality(S) -> S] :
       /\ \A i, j \in DOMAIN p : p[i] = p[j] => i = j
       /\ \A i \in DOMAIN p : has_edge(g, p[i], p[(i % Cardinality(S)) + 1])

RingSets(rs) == {Range(rs[i]) : i \in 1..Len(rs)}

\* neither the time budget nor the max_rings cap was reached
NoLimitReached ==
    /\ out.budget >= NoTimeout(G)
    /\ Len(out.rings) < out.max_rings

\* C22: when neither the time budget nor the max_rings cap is reached,
\* find_rings returns, for every set of 3 to max_length nodes that can be
\* ordered into a directed cycle, a ring with exactly that node set.
C22_EveryCycleReported ==
    (pc = "returned" /\ NoLimitReached) =>
        \A S \in SUBSET Nodes(G) :
            (Cardinality(S) \in 3..out.max_length /\ OrderedCycle(G, S))
                => S \in RingSets(out.rings)

\* every ring the origins discover, in discovery order: the origins by
\* descending degree, each with the rings of find_rings_around_node
RECURSIVE Discovered(_, _, _)
Discovered(g, max_length, todo) ==
    IF todo = <<>> THEN <<>>
    ELSE find_rings_around_node(g, Head(todo), max_length)
             \o Discovered(g, max_length, Tail(todo))

\* the first discovered ring with the node set S
FirstWith(d, S) ==
    d[CHOOSE k \in DOMAIN d :
          /\ Range(d[k]) = S
          /\ \A j \in 1..(k - 1) : Range(d[j]) # S]

\* C25: no two rings returned by find_rings have the same node set, and the
\* ring kept for a node set is the first one discovered with it, in whatever
\* order the origins are searched and however often the set is found again.
C25_OneRingPerNodeSet ==
    pc = "returned" =>
        LET d == Discovered(G, out.max_length, nodes_by_degree(G))
        IN  /\ \A i, j \in DOMAIN out.rings :
                  Range(out.rings[i]) = Range(out.rings[j]) => i = j
            /\ \A i \in DOMAIN out.rings :
                  /\ \E k \in DOMAIN d : d[k] = out.rings[i]
                  /\ out.rings[i] = FirstWith(d, Range(out.rings[i]))

\* a node set was discovered by several origins, in different orders, and
\* the returned list holds one ring for it
C25_Witness ==
    /\ pc = "returned"
    /\ LET d == Discovered(G, out.max_length, nodes_by_degree(G))
       IN  \E i, j \in DOMAIN d :
              /\ i < j
              /\ d[i] # d[j]
              /\ Range(d[i]) = Range(d[j])
              /\ \E k \in DOMAIN out.rings : out.rings[k] = d[i]
    /\ Len(out.rings) >= 2

\* the degree of n counted on the edge set
DegreeSum(g, n) ==
    Cardinality({e \in Edges(g) : e[1] = n}) + Cardinality({e \in Edges(g) : e[2] = n})

\* origins is the node list in descending in-degree + out-degree
DescendingDegree(g, origins) ==
    /\ Len(origins) = Len(g.nodes)
    /\ Range(origins) = Nodes(g)
    /\ \A i \in 1..(Len(origins) - 1) :
          DegreeSum(g, origins[i]) >= DegreeSum(g, origins[i + 1])

\* d without the rings whose node set occurs earlier in d
DedupFirst(d) ==
    LET K == {k \in DOMAIN d : \A j \in 1..(k - 1) : Range(d[j]) # Range(d[k])}
    IN  [i \in 1..Cardinality(K) |->
            d[CHOOSE k \in K : Cardinality({j \in K : j < k}) = i - 1]]

\* the distinct rings of the first k origins
FoundBy(g, max_length, origins, k) ==
    DedupFirst(Discovered(g, max_length, SubSeq(origins, 1, k)))

\* the number of origins whose search starts: the first origin before which
\* a limit is reached ends the loop
OriginsStarted(g, max_length, max_rings, budget, origins) ==
    CHOOSE k \in 0..Len(origins) :
       /\ \A j \in 0..(k - 1) :
             j < budget /\ Len(FoundBy(g, max_length, origins, j)) < max_rings
       /\ \/ k = Len(origins)
          \/ k >= budget
          \/ Len(FoundBy(g, max_length, origins, k)) >= max_rings

\* C26: find_rings returns at most max_rings rings; the time budget and the
\* ring cap are tested before each origin's search, the origins being taken
\* in descending in-degree + out-degree; once a limit is reached no further
\* origin is searched and the rings found so far are returned, without an
\* error.
C26_LimitsTruncate ==
    pc = "returned" =>
        LET origins == nodes_by_degree(G)
            k == OriginsStarted(G, out.max_length, out.max_rings, out.budget, origins)
            found == FoundBy(G, out.max_length, origins, k)
        IN  /\ Len(out.rings) <= out.max_rings
            /\ DescendingDegree(G, origins)
            /\ out.rings = IF Len(found) > out.max_rings
                           THEN SubSeq(found, 1, out.max_rings) ELSE found

\* the cap of 2 rings was reached before the second origin while the graph
\* has more ring node sets, and 2 rings were returned
C26_Witness ==
    /\ pc = "returned"
    /\ out.max_rings = 2
    /\ Len(out.rings) = 2
    /\ LET origins == nodes_by_degree(G)
       IN  /\ OriginsStarted(G, out.max_length, out.max_rings, out.budget, origins) = 1
           /\ Len(FoundBy(G, out.max_length, origins, Len(origins))) > 2

-----------------------------------------------------------------------------
(* find_rings step by step: one action per loop iteration                   *)

\* out is the frame of find_rings: the origins and successors still to
\* take, the queue and visited set of the running search, the rings of the
\* running origin (node_rings) and of the call (found), and enq, the number
\* of times each node was enqueued by the running search.
NoEnq(g) == [n \in Nodes(g) |-> 0]

InitBfs == InitSearch

\* lines 57-66: rings = [], seen = set(), nodes_by_degree = sorted(...)
EnterFindRings ==
    /\ pc = "call"
    /\ \E q \in {<<5, DEFAULT_MAX_RINGS>>, <<3, 2>>} :
          out' = [fn |-> "find_rings", max_length |-> q[1], max_rings |-> q[2],
                  origins |-> nodes_by_degree(G), start_node |-> 0, neighbors |-> <<>>,
                  queue |-> <<>>, visited |-> {}, node_rings |-> <<>>,
                  found |-> [rings |-> <<>>, seen |-> {}], enq |-> NoEnq(G)]
    /\ calls' = [calls EXCEPT !.find_rings = @ + 1]
    /\ pc' = "origin"
    /\ UNCHANGED <<vouches, G, rings, parts, clusters, users, weights, profile, results>>

\* lines 67-75: the top of the loop over the origins; the time test of lines
\* 69-70 may succeed at any iteration
NextOrigin ==
    /\ pc = "origin"
    /\ \/ /\ out.origins # <<>>
          /\ Len(out.found.rings) < out.max_rings
          /\ out' = [out EXCEPT !.origins = Tail(@), !.start_node = Head(out.origins),
                                !.neighbors = successors(G, Head(out.origins)),
                                !.node_rings = <<>>]
          /\ pc' = "neighbor"
       \/ /\ out' = out
          /\ pc' = "returned"
    /\ UNCHANGED <<vouches, G, rings, parts, clusters, users, weights, profile, results, calls>>

\* lines 18-21: the next successor of the origin starts a search; after the
\* last one lines 77-84 add the origin's rings
NextNeighbor ==
    /\ pc = "neighbor"
    /\ IF out.neighbors = <<>>
       THEN /\ out' = [out EXCEPT !.found = AddRings(out.node_rings, out.max_rings, @)]
            /\ pc' = "origin"
       ELSE /\ out' = [out EXCEPT !.neighbors = Tail(@),
                                  !.queue = <<<<out.start_node, Head(out.neighbors)>>>>,
                                  !.visited = {out.start_node, Head(out.neighbors)},
                                  !.enq = [NoEnq(G) EXCEPT ![Head(out.neighbors)] = 1]]
            /\ pc' = "bfs"
    /\ UNCHANGED <<vouches, G, rings, parts, clusters, users, weights, profile, results, calls>>

\* lines 23-35: one iteration of the while loop
PopPath ==
    /\ pc = "bfs"
    /\ IF out.queue = <<>>
       THEN /\ out' = out
            /\ pc' = "neighbor"
       ELSE /\ \E path \in {Head(out.queue)} :
               \E st \in {IF Len(path) > out.max_length
                          THEN [queue |-> Tail(out.queue), visited |-> out.visited,
                                rings |-> out.node_rings]
                          ELSE ExpandNode(G, out.start_node, out.max_length, path,
                                          successors(G, Last(path)),
                                          [queue |-> Tail(out.queue), visited |-> out.visited,
                                           rings |-> out.node_rings])} :
                  out' = [out EXCEPT
                             !.queue = st.queue,
                             !.visited = st.visited,
                             !.node_rings = st.rings,
                             !.enq = [n \in Nodes(G) |->
                                         @[n] + Cardinality({i \in Len(out.queue)..Len(st.queue) :
                                                                Last(st.queue[i]) = n})]]
            /\ pc' = "bfs"
    /\ UNCHANGED <<vouches, G, rings, parts, clusters, users, weights, profile, results, calls>>

NextBfs == EnterFindRings \/ NextOrigin \/ NextNeighbor \/ PopPath

SpecBfs == InitBfs /\ [][NextBfs]_vars

\* the loops are sequential code: a step that can be taken is taken
SpecBfsFair == SpecBfs /\ WF_vars(NextBfs)

\* the running search has enqueued no node twice, and outside a running
\* search the frontier is empty
EnqueuedOnce ==
    pc \in {"origin", "neighbor", "bfs", "returned"} =>
        /\ \A n \in Nodes(G) : out.enq[n] <= 1
        /\ pc # "bfs" => out.queue = <<>>

\* C30: find_rings terminates on every finite graph, dense or with
\* self-loops, whether or not the time budget runs out: a search started
\* from one successor of an origin enqueues each node at most once, and
\* every origin's search ends with its frontier empty.
C30_SearchTerminates == [](EnqueuedOnce) /\ <>(pc = "returned")

\* the search of a complete graph with self-loops has returned after every
\* origin was searched
C30_Witness ==
    /\ pc = "returned"
    /\ out.origins = <<>>
    /\ Cardinality(Edges(G)) = MaxSearchNodes * MaxSearchNodes
    /\ Len(out.found.rings) >= 2

-----------------------------------------------------------------------------
(* the temporal modifier of calculate_ring_score (under SpecRingScore)       *)

\* the days of the timestamps the ring's edges carry
StampedDays(ring) ==
    {G.edge[e].timestamp.t : e \in {q \in RingEdges(ring) : HasTs(G.edge[q].timestamp)}}
StampedCount(ring) ==
    Cardinality({q \in RingEdges(ring) : HasTs(G.edge[q].timestamp)})
DaySpan(days) ==
    (CHOOSE d \in days : \A e \in days : e <= d) - (CHOOSE d \in days : \A e \in days : d <= e)

\* the claim's temporal modifier, in tenths
ClaimTemporalTenths(ring) ==
    IF StampedCount(ring) < 2 THEN 10
    ELSE IF 0 <= DaySpan(StampedDays(ring)) /\ DaySpan(StampedDays(ring)) < FAST_DAYS THEN 13
    ELSE IF DaySpan(StampedDays(ring)) > SLOW_DAYS THEN 8
    ELSE 10

\* C23: the temporal modifier of a ring is 1.3 when at least two of its
\* edges carry a timestamp and the span s between the earliest and the latest
\* satisfies 0 <= s < 7 days, 0.8 when s > 90 days and 1.0 otherwise; edges
\* without a timestamp are left out, and fewer than two timestamped edges
\* give 1.0.  Stated on the score: it is min(100, sum of base * stake
\* modifier * this temporal modifier).
C23_TemporalModifier ==
    (pc = "returned" /\ out.ok) =>
        LET total == SumOver([i \in RingsOf(profile) |->
                                 ClaimBase(Len(UsedRings[i])) * ClaimStakeTenths(UsedRings[i])
                                     * ClaimTemporalTenths(UsedRings[i]) * 10],
                             RingsOf(profile))
        IN  out.score[1] * 1000 = (IF total > 100000 THEN 100000 ELSE total) * out.score[2]

-----------------------------------------------------------------------------
(* calculate_cluster_score with and without precomputed_clusters             *)

\* score = calculate_cluster_score(G, p): precomputed_clusters omitted,
\* find_communities returning parts
CallClusterFallback ==
    /\ pc = "call"
    /\ \E p \in Nodes(G) :
          /\ profile' = p
          /\ out' = [fn |-> "calculate_cluster_score",
                     score |-> calculate_cluster_score(G, p, DEFAULT_THRESHOLD, NoClusters, parts)]
    /\ calls' = [calls EXCEPT !.find_communities = @ + 1]
    /\ pc' = "returned"
    /\ UNCHANGED <<vouches, G, rings, parts, clusters, users, weights, results>>

NextClusterPaths == CallPrecompute \/ CallClusterScore \/ CallClusterFallback

SpecClusterPaths == InitCluster /\ [][NextClusterPaths]_vars

\* the score of the profile on the path that was not taken
OtherPathScore ==
    IF clusters.given
    THEN calculate_cluster_score(G, profile, DEFAULT_THRESHOLD, NoClusters, parts)
    ELSE calculate_cluster_score(G, profile, DEFAULT_THRESHOLD,
             [given |-> TRUE, data |-> precompute_cluster_data(G, DEFAULT_THRESHOLD, parts)],
             parts)

\* C24: communities of fewer than 3 members are ignored on every scoring
\* path: a profile whose community has fewer than 3 members scores 0 with
\* the mapping of precompute_cluster_data and on the fly, and for every
\* profile the two paths give the same score for the same partition and
\* threshold.
C24_SmallCommunitiesIgnored ==
    pc = "returned" =>
        /\ (\E c \in parts : profile \in c /\ Cardinality(c) < MIN_COMMUNITY)
               => REq(out.score, Rat(0))
        /\ REq(out.score, OtherPathScore)

-----------------------------------------------------------------------------
(* the searches of analyze_all_profiles (under Spec)                        *)

\* find_rings and find_communities have each run once and their results are
\* held for the profiles
SearchedOnce ==
    /\ rings.given
    /\ clusters.given
    /\ calls.find_rings = 1
    /\ calls.find_communities = 1

SearchesBeforeScoring ==
    /\ calls.find_rings <= 1
    /\ calls.find_communities <= 1
    /\ calls.find_communities = 1 => calls.find_rings = 1
    /\ (pc \in {"score", "done"} \/ results # <<>>) => SearchedOnce

\* a step that scores a profile runs neither search
ScoringRunsNoSearch ==
    pc = "score" =>
        /\ calls'.find_rings = calls.find_rings
        /\ calls'.find_communities = calls.find_communities

\* C27: within one analyze_all_profiles call find_rings and find_communities
\* each run exactly once, both before the first profile is scored, and no
\* per-profile step runs either again, also when no ring was found or no
\* community was flagged.
C27_SearchesRunOnce == [](SearchesBeforeScoring) /\ [][ScoringRunsNoSearch]_vars

\* a run over three profiles has returned; no ring was found and no
\* community flagged, and each search ran once
C27_Witness ==
    /\ pc = "done"
    /\ Len(results) = 3
    /\ rings.rings = <<>>
    /\ DOMAIN clusters.data = {}
    /\ SearchedOnce
    /\ calls.detectors = 15

-----------------------------------------------------------------------------
(* build_vouch_graph on records dated in any order                          *)

MaxDay == 2

\* activityCheckpoints of a record of day d: nothing, an epoch number, an ISO
\* string with offset, a string that is no date
DatedCheckpoints(d) ==
    {<<RawNone, RawNone>>, <<Num(d), RawNone>>, <<RawNone, IsoZ(d)>>, <<RawNone, Bad>>}

\* build_vouch_graph, one record of the loop; the records of the pairs (1, 2)
\* and (2, 1) come in any order of their days
AddDatedVouch ==
    /\ pc = "build"
    /\ Len(vouches) < MaxStamped
    /\ \E e \in {<<1, 2>>, <<2, 1>>}, d \in 1..MaxDay :
          \E cp \in DatedCheckpoints(d) :
             \E r \in {BuildStep(G, StampedVouch(e[1], e[2], cp))} :
                /\ vouches' = Append(vouches, StampedVouch(e[1], e[2], cp))
                /\ G' = r.g
                /\ pc' = IF r.ok THEN "build" ELSE "raised"
    /\ UNCHANGED <<rings, parts, clusters, users, weights, profile, results, out, calls>>

NextEarliest == AddDatedVouch

SpecEarliest == InitStamped /\ [][NextEarliest]_vars

\* the days of the records of the pair e whose timestamp can be resolved
ResolvableDays(e) ==
    {OfferedStamp(vouches[i]).val : i \in {j \in RecordsOf(e) : ~Unresolvable(vouches[j])}}

\* the loop has not raised, and every edge carries the earliest resolvable
\* day of its records
EarliestKept ==
    /\ pc # "raised"
    /\ \A e \in Edges(G) :
          IF ResolvableDays(e) = {} THEN ~HasTs(G.edge[e].timestamp)
          ELSE /\ HasTs(G.edge[e].timestamp)
               /\ G.edge[e].timestamp.t \in ResolvableDays(e)
               /\ \A d \in ResolvableDays(e) : G.edge[e].timestamp.t <= d

\* a stored timestamp is never replaced by an absent or a later one
StampNeverLost ==
    \A e \in Edges(G) :
        HasTs(G.edge[e].timestamp) =>
            /\ HasTs(G'.edge[e].timestamp)
            /\ G'.edge[e].timestamp.t <= G.edge[e].timestamp.t

\* C28: build_vouch_graph processes any sequence of records, and then the
\* timestamp of each edge is the minimum of the resolvable timestamps of the
\* records of its pair, absent exactly when none is resolvable; no record
\* replaces a stored timestamp by an absent one, in whatever order the
\* records come.
C28_EarliestTimestamp == [](EarliestKept) /\ [][StampNeverLost]_vars

-----------------------------------------------------------------------------
(* analyze_all_profiles with custom weights: the reported composite         *)

\* weights handed to analyze_all_profiles: the ring weight just below 0.25,
\* no weight on the cluster score
NEAR_WEIGHTS ==
    [given |-> TRUE, ring |-> <<2499, 10000>>, cluster |-> <<0, 1>>, burst |-> <<20, 100>>,
     stake |-> <<15, 100>>, reciprocity |-> <<10, 100>>]

InitRounded ==
    /\ pc = "build"
    /\ vouches = <<>>
    /\ G = EmptyGraph
    /\ rings = NoRings
    /\ parts = {}
    /\ clusters = NoClusters
    /\ users = NoUsers
    /\ weights = NEAR_WEIGHTS
    /\ profile = 0
    /\ results = <<>>
    /\ out = 0
    /\ calls = NoCalls

SpecRounded == InitRounded /\ [][Next]_vars

\* C29: in every entry of analyze_all_profiles whose risk_level is not
\* "official", the risk_level is the level get_risk_level assigns to the
\* composite_score the entry reports (rounded to two decimals by to_dict);
\* no entry reports 10.0 together with "minimal".
C29_LevelMatchesReported ==
    \A i \in 1..Len(results) :
        results[i].risk_level # "official" =>
            results[i].risk_level
                = ClaimLevel(results[i].composite_score[1], results[i].composite_score[2])

====
